---- MODULE Spec2Model ----
(***************************************************************************)
(* A state-machine model of the chat_bot LLM orchestration core:           *)
(*   - LLMFactory            (app/services/llm_factory.py)                 *)
(*   - MCPService / MCPServer (app/services/mcp_integration.py)            *)
(*   - provider adapters      (app/services/llm_providers.py)              *)
(*   - stream_chat / websocket_chat (app/api/chat.py)                      *)
(* Python None is the string NoneVal; a raised exception is a record field *)
(* "raised".                                                               *)
(***************************************************************************)
EXTENDS Integers, Sequences, FiniteSets, TLC

VARIABLES
    factory,      \* the LLMFactory call under study: its arguments and its result
    servers,      \* MCPService.servers: the dict's keys in insertion order, each with its object
    heap,         \* the MCPServer objects, by identity
    configDoc,    \* the content of the file at MCPService.config_path
    diskOk,       \* whether writing config_path succeeds (environment)
    regcall,      \* the last registry call: operation, arguments, return value
    settings,     \* app.config.settings: the providers that have an API key
    chats,        \* table chats
    messages,     \* table messages, per chat in created_at order
    llm_configs,  \* table llm_configs
    turn,         \* the stream_chat requests in flight
    ws,           \* the websocket_chat session
    refresh,      \* the refresh of the servers' tools at application startup
    call,         \* the generate_response call under study: what was sent and returned
    http,         \* the last response of the chat endpoints: who asked what, and the answer
    creating      \* the create_llm_config requests in flight

vars == <<factory, servers, heap, configDoc, diskOk, regcall, settings, chats,
          messages, llm_configs, turn, ws, refresh, call, http, creating>>

NoneVal == "<None>"

Range(s) == {s[i] : i \in 1..Len(s)}

(***************************************************************************)
(* LLMFactory                                                              *)
(***************************************************************************)

\* LLMProvider enum (app/schemas/chat.py)
LLMProvider == {"openai", "anthropic", "google", "groq"}

\* LLMFactory._providers: provider identifier -> adapter class
providers ==
    [p \in LLMProvider |->
        CASE p = "openai"    -> "OpenAIProvider"
          [] p = "anthropic" -> "AnthropicProvider"
          [] p = "google"    -> "GoogleProvider"
          [] p = "groq"      -> "GroqProvider"]

\* LLMFactory._provider_info: the declared model list and default model
provider_info ==
    [p \in LLMProvider |->
        CASE p = "openai" ->
               [models |-> <<"gpt-4", "gpt-4-turbo", "gpt-3.5-turbo", "gpt-3.5-turbo-16k">>,
                default_model |-> "gpt-3.5-turbo"]
          [] p = "anthropic" ->
               [models |-> <<"claude-3-opus-20240229", "claude-3-sonnet-20240229",
                             "claude-3-haiku-20240307">>,
                default_model |-> "claude-3-sonnet-20240229"]
          [] p = "google" ->
               [models |-> <<"gemini-2.5-pro", "gemini-2.5-flash",
                             "gemini-2.5-flash-lite-preview-06-17", "gemini-2.0-flash",
                             "gemini-2.0-flash-lite", "gemini-1.5-pro",
                             "gemini-1.5-flash", "gemini-1.5-flash-8b">>,
                default_model |-> "gemini-2.5-pro"]
          [] p = "groq" ->
               [models |-> <<"mixtral-8x7b-32768", "llama2-70b-4096", "gemma-7b-it">>,
                default_model |-> "mixtral-8x7b-32768"]]

\* Mutant of validate_provider_config: the provider's own list is not consulted.
validate_any_provider(provider_type, model) ==
    \E p \in DOMAIN provider_info : model \in Range(provider_info[p].models)

\* LLMFactory.validate_provider_config
validate_provider_config(provider_type, model) ==
    IF provider_type \notin DOMAIN provider_info
    THEN FALSE
    ELSE model \in Range(provider_info[provider_type].models)

NoAdapter == [cls |-> NoneVal, api_key |-> NoneVal, model |-> NoneVal]

\* Python truthiness of an Optional[str]
Truthy(s) == s # NoneVal /\ s # ""

\* Mutant of create_provider: an unknown provider falls back to the OpenAI adapter.
create_provider_fallback(provider_type, api_key, model) ==
    LET pt == IF provider_type \in DOMAIN providers THEN provider_type ELSE "openai"
    IN  [raised |-> NoneVal,
         adapter |-> [cls |-> providers[pt], api_key |-> api_key,
                      model |-> IF Truthy(model) THEN model
                                ELSE provider_info[pt].default_model]]

\* Mutant of create_provider: a missing model is passed on as it is.
create_provider_no_default(provider_type, api_key, model) ==
    IF provider_type \notin DOMAIN providers
    THEN [raised |-> "ValueError", adapter |-> NoAdapter]
    ELSE [raised |-> NoneVal,
          adapter |-> [cls |-> providers[provider_type], api_key |-> api_key,
                       model |-> model]]

\* LLMFactory.create_provider: the exception raised, or the adapter constructed
create_provider(provider_type, api_key, model) ==
    IF provider_type \notin DOMAIN providers
    THEN [raised |-> "ValueError", adapter |-> NoAdapter]
    ELSE [raised |-> NoneVal,
          adapter |-> [cls |-> providers[provider_type], api_key |-> api_key,
                       model |-> IF ~Truthy(model)
                                 THEN provider_info[provider_type].default_model
                                 ELSE model]]

\* The provider identifiers and model names the factory is called with.
ProviderInputs == LLMProvider \cup {"mistral", ""}

DeclaredModels == UNION {Range(provider_info[p].models) : p \in LLMProvider}

ModelInputs == DeclaredModels \cup {"gpt-9", "", NoneVal}

FactoryIdle(p, m) ==
    [op |-> "none", provider_type |-> p, model |-> m, api_key |-> "sk-key",
     ret |-> NoneVal, raised |-> NoneVal, adapter |-> NoAdapter, constructed |-> 0]

\* A call of LLMFactory.validate_provider_config on the arguments drawn by Init
ValidateProviderConfig ==
    /\ factory.op = "none"
    /\ factory' = [factory EXCEPT
                     !.op = "validate_provider_config",
                     !.ret = IF validate_provider_config(factory.provider_type, factory.model)
                             THEN "True" ELSE "False"]
    /\ UNCHANGED <<servers, heap, configDoc, diskOk, regcall, settings, chats,
                   messages, llm_configs, turn, ws, refresh, call, http, creating>>

\* A call of LLMFactory.create_provider on the arguments drawn by Init
CreateProvider ==
    /\ factory.op = "none"
    /\ LET r == create_provider(factory.provider_type, factory.api_key, factory.model)
       IN  factory' = [factory EXCEPT
                         !.op = "create_provider",
                         !.raised = r.raised,
                         !.adapter = r.adapter,
                         !.constructed = IF r.raised = NoneVal THEN 1 ELSE 0]
    /\ UNCHANGED <<servers, heap, configDoc, diskOk, regcall, settings, chats,
                   messages, llm_configs, turn, ws, refresh, call, http, creating>>

(***************************************************************************)
(* MCPServer / MCPService: the tool-server registry                        *)
(***************************************************************************)

\* Bounds of the model
MaxObjs == 2
MaxReps == 2

ServerNames == {"filesystem", "brave-search"}
ToolNames == {"read_file", "search"}
\* The names a registry call or a tool-call request may carry: the known ones and
\* one that no server and no tool has.
ServerInputs == ServerNames \cup {"sqlite"}
ToolInputs == ToolNames \cup {"query"}
\* The tool names a vendor reply asks for: one the servers have, one none has.
RequestedTools == {"search", "query"}

ObjIds == 1..MaxObjs
\* What get_server returns for a name that is not registered (None)
NoObj == 0

\* A command: the list of strings the configuration asks for, or a plain string
List(items) == [kind |-> "list", items |-> items]

Str(text) == [kind |-> "str", items |-> <<text>>]

\* Python truthiness of a command: false for [] and for ""
CommandTruthy(command) == command.items # <<>> /\ command.items # <<"">>

\* config.get(key, default) on a configuration entry, a dict that may lack keys
Get(config, key, default) == IF key \in DOMAIN config THEN config[key] ELSE default

\* MCPServer.__init__: the fields a configuration entry gives an object. A tool is
\* a dict {"name", "disabled"}; env is a dict, written as the set of its items.
MCPServer(name, config) ==
    [name |-> name,
     command |-> Get(config, "command", List(<<>>)),
     args |-> Get(config, "args", <<>>),
     env |-> Get(config, "env", {}),
     disabled |-> Get(config, "disabled", FALSE),
     description |-> Get(config, "description", ""),
     tools |-> Get(config, "tools", <<>>)]

NoServer == [name |-> NoneVal, command |-> List(<<>>), args |-> <<>>, env |-> {},
             disabled |-> FALSE, description |-> "", tools |-> <<>>]

\* Mutant of to_dict: the description is left out.
to_dict_without_description(server) ==
    [command |-> server.command, args |-> server.args, env |-> server.env,
     disabled |-> server.disabled, tools |-> server.tools]

\* MCPServer.to_dict
to_dict(server) ==
    [command |-> server.command, args |-> server.args, env |-> server.env,
     disabled |-> server.disabled, description |-> server.description,
     tools |-> server.tools]

\* Mutant of get_server: an unknown name gives the first server registered.
get_server_or_first(name) ==
    IF \E i \in 1..Len(servers) : servers[i].name = name
    THEN servers[CHOOSE i \in 1..Len(servers) : servers[i].name = name].obj
    ELSE IF Len(servers) > 0 THEN servers[1].obj ELSE NoObj

\* MCPService.get_server: the object registered under the name, or None
get_server(name) ==
    IF \E i \in 1..Len(servers) : servers[i].name = name
    THEN servers[CHOOSE i \in 1..Len(servers) : servers[i].name = name].obj
    ELSE NoObj

\* MCPService.save_config: the document after the call. A failed write is logged
\* and swallowed, and leaves the document as it was.
SavedDoc(srvs, hp) ==
    IF diskOk
    THEN [i \in 1..Len(srvs) |-> [name |-> srvs[i].name, config |-> to_dict(hp[srvs[i].obj])]]
    ELSE configDoc

\* MCPService.load_config on an existing, well-formed document: one MCPServer per
\* entry, in the document's order.
LoadedServers(doc) == [i \in 1..Len(doc) |-> [name |-> doc[i].name, obj |-> i]]

\* The objects are as many as ObjIds, or as the entries when those are more
LoadedHeap(doc) ==
    [id \in ObjIds \cup (1..Len(doc)) |->
        IF id <= Len(doc) THEN MCPServer(doc[id].name, doc[id].config)
        ELSE NoServer]

\* The file at config_path does not exist
NoDocument == <<[exists |-> FALSE]>>

\* The file at config_path exists and json.load raises on it
BrokenDocument == <<[text |-> "{\"mcpServers\": "]>>

\* MCPService.create_default_config: the three servers of the default registry
DefaultDoc ==
    LET tool(n, d) == [name |-> n, description |-> d, disabled |-> FALSE]
    IN  <<[name |-> "filesystem",
           config |-> [command |-> List(<<"npx">>), args |-> <<"-y">>,
                       description |-> "File system access server",
                       tools |-> <<tool("read_file", "Read a file"),
                                   tool("write_file", "Write to a file")>>]],
          [name |-> "brave-search",
           config |-> [command |-> List(<<"npx">>), args |-> <<"-y">>,
                       env |-> {<<"BRAVE_API_KEY", "your-brave-api-key-here">>},
                       description |-> "Brave search integration",
                       tools |-> <<tool("search", "Web search")>>]],
          [name |-> "sqlite",
           config |-> [command |-> List(<<"npx">>), args |-> <<"-y">>,
                       description |-> "SQLite database access",
                       tools |-> <<tool("query", "Run SQL query")>>]]>>

\* enable_server / disable_server: self.servers[name].disabled = value
SetServerDisabled(server, value) == [server EXCEPT !.disabled = value]

\* Whether an element of a tools value is a tool dict, so that t["name"] is defined
IsToolDict(t) == "name" \in DOMAIN t

\* The tool dicts a scan of a tools value reads before it meets an element that
\* is not one: all of them when the value is a list of tool dicts
DictPrefix(tools) ==
    SubSeq(tools, 1, CHOOSE n \in 0..Len(tools) :
                        /\ \A j \in 1..n : IsToolDict(tools[j])
                        /\ n = Len(tools) \/ ~IsToolDict(tools[n + 1]))

\* A scan for t["name"] == tool_name raises TypeError: it meets an element that
\* is not a tool dict before one with the name
ToolsRaise(tools, tool_name) ==
    /\ Len(DictPrefix(tools)) < Len(tools)
    /\ \A i \in 1..Len(DictPrefix(tools)) : tools[i].name # tool_name

\* The index of the first tool dict with the name, 0 when there is none
FirstTool(tools, tool_name) ==
    IF \E i \in 1..Len(tools) : tools[i].name = tool_name
    THEN CHOOSE i \in 1..Len(tools) :
            /\ tools[i].name = tool_name
            /\ \A j \in 1..(i - 1) : tools[j].name # tool_name
    ELSE 0

\* Mutant of SetToolDisabled: the flag is flipped instead of set.
ToggleToolDisabled(tools, tool_name, value) ==
    LET i == FirstTool(tools, tool_name)
    IN  IF i = 0 THEN tools ELSE [tools EXCEPT ![i].disabled = ~tools[i].disabled]

\* enable_tool / disable_tool: the loop sets the flag of the first tool dict with
\* the name and returns.
SetToolDisabled(tools, tool_name, value) ==
    LET i == FirstTool(tools, tool_name)
    IN  IF i = 0 THEN tools
        ELSE [tools EXCEPT ![i] = [f \in DOMAIN tools[i] \cup {"disabled"} |->
                                      IF f = "disabled" THEN value ELSE tools[i][f]]]

\* The endpoints of mcp_api: HTTP 404 when the registry call returns False
HttpStatus(ret) == IF ret THEN "200" ELSE "404"

NoCall == [op |-> "none", server |-> NoneVal, tool |-> NoneVal, ret |-> FALSE,
           status |-> NoneVal, reps |-> 0]

\* The value of regcall in the specifications that do not follow the registry calls
Untracked == [NoCall EXCEPT !.op = "untracked"]

\* The record of a registry call; reps counts the consecutive calls of the same
\* operation with the same arguments.
Called(op, server, tool, ret) ==
    IF regcall = Untracked THEN regcall ELSE
    [op |-> op, server |-> server, tool |-> tool, ret |-> ret,
     status |-> HttpStatus(ret),
     reps |-> IF regcall.op = op /\ regcall.server = server /\ regcall.tool = tool
              THEN IF regcall.reps < MaxReps THEN regcall.reps + 1 ELSE MaxReps
              ELSE 1]

\* The record of a registry call that raised: the endpoint answers HTTP 500
Raised(op, server, tool) ==
    IF regcall = Untracked THEN regcall
    ELSE [Called(op, server, tool, FALSE) EXCEPT !.status = "500"]

\* enable_server(name) and disable_server(name), value the flag they set
ServerSwitch(op, value, name) ==
    LET id == get_server(name)
    IN  /\ IF id # NoObj
           THEN LET hp == [heap EXCEPT ![id] = SetServerDisabled(heap[id], value)]
                IN  /\ heap' = hp
                    /\ configDoc' = SavedDoc(servers, hp)
           ELSE UNCHANGED <<heap, configDoc>>
        /\ regcall' = Called(op, name, NoneVal, id # NoObj)
        /\ UNCHANGED <<factory, servers, diskOk, settings, chats, messages,
                       llm_configs, turn, ws, refresh, call, http, creating>>

\* MCPService.enable_server
enable_server == \E name \in ServerInputs : ServerSwitch("enable_server", FALSE, name)

\* MCPService.disable_server
disable_server == \E name \in ServerInputs : ServerSwitch("disable_server", TRUE, name)

\* enable_tool(server_name, tool_name) and disable_tool(server_name, tool_name)
ToolSwitch(op, value, server_name, tool_name) ==
    LET id == get_server(server_name)
        raises == id # NoObj /\ ToolsRaise(heap[id].tools, tool_name)
        found == id # NoObj /\ ~raises /\ FirstTool(heap[id].tools, tool_name) # 0
    IN  /\ IF found
           THEN LET hp == [heap EXCEPT
                             ![id].tools = SetToolDisabled(heap[id].tools, tool_name, value)]
                IN  /\ heap' = hp
                    /\ configDoc' = SavedDoc(servers, hp)
           ELSE UNCHANGED <<heap, configDoc>>
        /\ regcall' = IF raises THEN Raised(op, server_name, tool_name)
                      ELSE Called(op, server_name, tool_name, found)
        /\ UNCHANGED <<factory, servers, diskOk, settings, chats, messages,
                       llm_configs, turn, ws, refresh, call, http, creating>>

\* MCPService.enable_tool
enable_tool ==
    \E server_name \in ServerInputs, tool_name \in ToolInputs :
        ToolSwitch("enable_tool", FALSE, server_name, tool_name)

\* MCPService.disable_tool
disable_tool ==
    \E server_name \in ServerInputs, tool_name \in ToolInputs :
        ToolSwitch("disable_tool", TRUE, server_name, tool_name)

\* The configuration entries add_server is called with: complete ones, and ones
\* that leave keys out
ConfigInputs ==
    {[command |-> List(<<"npx">>)], [description |-> "File system access server", disabled |-> TRUE]}
    \cup {[command |-> List(<<"npx">>), args |-> <<"-y">>, env |-> {}, disabled |-> FALSE,
           description |-> "Brave search integration", tools |-> <<>>]}
    \cup {[command |-> List(<<"npx">>), args |-> <<"-y">>,
           env |-> {<<"BRAVE_API_KEY", "key">>}, disabled |-> d,
           description |-> "Brave search integration",
           tools |-> <<[name |-> "search", disabled |-> FALSE]>>] : d \in BOOLEAN}

\* The object ids held by a stream_chat request
Held == UNION {{turn[t].enabled_servers[k].obj : k \in 1..Len(turn[t].enabled_servers)} :
                  t \in DOMAIN turn}

\* MCPService.add_server: a new object is registered under the name, in place of
\* the one registered before if there is one, and the document is saved.
add_server ==
    \E name \in ServerNames, config \in ConfigInputs :
        LET free == {id \in ObjIds : heap[id] = NoServer}
            id == CHOOSE x \in free : \A y \in free : x <= y
            old == get_server(name)
            srvs == IF old = NoObj
                    THEN Append(servers, [name |-> name, obj |-> id])
                    ELSE [i \in 1..Len(servers) |->
                            IF servers[i].name = name THEN [name |-> name, obj |-> id]
                            ELSE servers[i]]
            hp == [x \in ObjIds |->
                     IF x = id THEN MCPServer(name, config)
                     ELSE IF x = old /\ old \notin Held THEN NoServer
                     ELSE heap[x]]
        IN  /\ free # {}
            /\ servers' = srvs
            /\ heap' = hp
            /\ configDoc' = SavedDoc(srvs, hp)
            /\ regcall' = Called("add_server", name, NoneVal, TRUE)
            /\ UNCHANGED <<factory, diskOk, settings, chats, messages, llm_configs,
                           turn, ws, refresh, call, http, creating>>

\* MCPService.update_server: None for a name that is not registered; otherwise a
\* new object takes the place of the one registered, and the document is saved.
\* The old object is freed unless a request holds it, and its place is then the
\* new object's.
update_server ==
    \E name \in ServerInputs, config \in ConfigInputs :
        LET old == get_server(name)
            free == {id \in ObjIds : heap[id] = NoServer \/ (id = old /\ old \notin Held)}
            id == CHOOSE x \in free : \A y \in free : x <= y
            srvs == [i \in 1..Len(servers) |->
                       IF servers[i].name = name THEN [name |-> name, obj |-> id]
                       ELSE servers[i]]
            hp == [x \in ObjIds |->
                     IF x = id THEN MCPServer(name, config)
                     ELSE IF x = old /\ old \notin Held THEN NoServer
                     ELSE heap[x]]
        IN  /\ old # NoObj => free # {}
            /\ IF old # NoObj
               THEN /\ servers' = srvs
                    /\ heap' = hp
                    /\ configDoc' = SavedDoc(srvs, hp)
               ELSE UNCHANGED <<servers, heap, configDoc>>
            /\ regcall' = Called("update_server", name, NoneVal, old # NoObj)
            /\ UNCHANGED <<factory, diskOk, settings, chats, messages, llm_configs,
                           turn, ws, refresh, call, http, creating>>

\* MCPService.remove_server: the name leaves the dict and the document is saved;
\* the object lives on for as long as a request holds it.
remove_server ==
    \E name \in ServerInputs :
        LET old == get_server(name)
            srvs == SelectSeq(servers, LAMBDA e : e.name # name)
            hp == [x \in ObjIds |-> IF x = old /\ old \notin Held THEN NoServer ELSE heap[x]]
        IN  /\ IF old # NoObj
               THEN /\ servers' = srvs
                    /\ heap' = hp
                    /\ configDoc' = SavedDoc(srvs, hp)
               ELSE UNCHANGED <<servers, heap, configDoc>>
            /\ regcall' = Called("remove_server", name, NoneVal, old # NoObj)
            /\ UNCHANGED <<factory, diskOk, settings, chats, messages, llm_configs,
                           turn, ws, refresh, call, http, creating>>

\* MCPService.save_config; the call is recorded with whether the write was made
save_config ==
    /\ configDoc' = SavedDoc(servers, heap)
    /\ regcall' = Called("save_config", NoneVal, NoneVal, diskOk)
    /\ UNCHANGED <<factory, servers, heap, diskOk, settings, chats, messages,
                   llm_configs, turn, ws, refresh, call, http, creating>>

\* MCPService.__init__ / load_config of a fresh registry on the document. A file
\* that exists and is parsed gives one server per entry; a file that does not
\* exist, and one whose reading raises, give create_default_config, which saves.
load_config ==
    LET parsed == configDoc # NoDocument /\ configDoc # BrokenDocument
        doc == IF parsed THEN configDoc ELSE DefaultDoc
    IN  /\ servers' = LoadedServers(doc)
        /\ heap' = LoadedHeap(doc)
        /\ configDoc' = IF parsed THEN configDoc
                        ELSE SavedDoc(LoadedServers(doc), LoadedHeap(doc))
        /\ regcall' = Called("load_config", NoneVal, NoneVal, parsed)
        /\ UNCHANGED <<factory, diskOk, settings, chats, messages,
                       llm_configs, turn, ws, refresh, call, http, creating>>

\* Environment: the file at config_path becomes unwritable, or writable again.
DiskChange ==
    /\ diskOk' = ~diskOk
    /\ regcall' = IF regcall = Untracked THEN regcall ELSE NoCall
    /\ UNCHANGED <<factory, servers, heap, configDoc, settings, chats, messages,
                   llm_configs, turn, ws, refresh, call, http, creating>>

(***************************************************************************)
(* refresh_tools and the refresh at application startup                    *)
(***************************************************************************)

\* The listings a tool server answers list_tools with
Listings ==
    {<<>>, <<[name |-> "search"]>>, <<[name |-> "read_file"]>>,
     <<[name |-> "read_file"], [name |-> "search"]>>}

\* What fetch_tools_for_server does: it raises, or it returns what
\* session.list_tools() returned. That is the SDK's result object, which holds the
\* listing and is truthy whatever it holds; refresh_tools tests it as if it were a
\* plain list, so both kinds of value are drawn.
Raises(exception) == [raised |-> exception, kind |-> NoneVal, listing |-> <<>>]

Returns(kind, listing) == [raised |-> NoneVal, kind |-> kind, listing |-> listing]

\* The value of the SDK's result object, as a value of the field tools: it is not
\* a list of tool dicts
ListToolsResult(listing) == <<[ListToolsResult |-> listing]>>

\* fetch_tools_for_server(server_name): the outcomes of the call. A command that
\* is a list is refused when the launch parameters are built from it.
fetch_tools_for_server(server_name) ==
    LET id == get_server(server_name)
    IN  IF id = NoObj THEN {Raises("ValueError")}
        ELSE IF ~CommandTruthy(heap[id].command) THEN {Raises("ValueError")}
        ELSE IF heap[id].command.kind = "list" THEN {Raises("ValidationError")}
        ELSE {Raises("OSError"), Raises("McpError")}
             \cup {Returns(kind, listing) :
                      kind \in {"list", "ListToolsResult"}, listing \in Listings}

\* Mutant of refresh_tools: the call of fetch_tools_for_server is not guarded.
refresh_tools_unguarded(server, fetched) ==
    IF fetched.raised # NoneVal
    THEN [tools |-> server.tools, escaped |-> fetched.raised]
    ELSE [tools |-> IF fetched.kind = "list" THEN fetched.listing
                    ELSE ListToolsResult(fetched.listing),
          escaped |-> NoneVal]

\* MCPServer.refresh_tools on the outcome of fetch_tools_for_server: the tools the
\* object has afterwards, and the exception that leaves the method (None)
refresh_tools(server, fetched) ==
    IF fetched.raised # NoneVal
    THEN [tools |-> server.tools, escaped |-> NoneVal]
    ELSE IF fetched.kind = "list" /\ fetched.listing = <<>>
    THEN [tools |-> server.tools, escaped |-> NoneVal]
    ELSE [tools |-> IF fetched.kind = "list" THEN fetched.listing
                    ELSE ListToolsResult(fetched.listing),
          escaped |-> NoneVal]

\* server.refresh_tools() awaited on a registered server while requests are served
RefreshTools ==
    \E i \in 1..Len(servers) :
        LET id == servers[i].obj
        IN  /\ \E fetched \in fetch_tools_for_server(heap[id].name) :
                  heap' = [heap EXCEPT ![id].tools = refresh_tools(heap[id], fetched).tools]
            /\ UNCHANGED <<factory, servers, configDoc, diskOk, regcall, settings, chats,
                           messages, llm_configs, turn, ws, refresh, call, http, creating>>

RefreshIdle ==
    [pc |-> "idle", pos |-> 0, server |-> NoneVal, raised |-> NoneVal, kind |-> NoneVal,
     listing |-> <<>>, escaped |-> NoneVal]

\* refresh_all_mcp_tools, one pass of its loop over get_all_servers().values():
\* the next server's refresh_tools is awaited
refresh_all_mcp_tools ==
    LET i == refresh.pos + 1
        id == servers[i].obj
    IN  /\ refresh.pc \in {"idle", "running"}
        /\ i <= Len(servers)
        /\ \E fetched \in fetch_tools_for_server(heap[id].name) :
              LET r == refresh_tools(heap[id], fetched)
              IN  /\ heap' = [heap EXCEPT ![id].tools = r.tools]
                  /\ refresh' = [pc |-> IF r.escaped # NoneVal \/ i = Len(servers)
                                        THEN "done" ELSE "running",
                                 pos |-> i, server |-> heap[id].name,
                                 raised |-> fetched.raised, kind |-> fetched.kind,
                                 listing |-> fetched.listing, escaped |-> r.escaped]
        /\ UNCHANGED <<factory, servers, configDoc, diskOk, regcall, settings, chats,
                       messages, llm_configs, turn, ws, call, http, creating>>

(***************************************************************************)
(* The tables (app/models) and the requests that fill them                 *)
(***************************************************************************)

\* Bounds of the model
MaxMessages == 2
MaxGenerate == 3

Users == {"u1", "u2"}
\* The users who create chats; the others only ask for them.
ChatOwners == {"u1"}
ChatIds == {"c1"}
\* The providers chats are created for: one adapter that looks for tool calls in
\* the reply and the one that does not.
ChatProviders == {"openai", "google"}

\* No response yet
NoResponse == [op |-> "none", user |-> NoneVal, chat_id |-> NoneVal, status |-> NoneVal,
              detail |-> NoneVal, body |-> <<>>]

\* The value of http in the specifications that do not follow the responses
HttpUntracked == [NoResponse EXCEPT !.op = "untracked"]

\* The response of a chat endpoint to the user's request about the chat: the
\* status, the detail of an HTTPException, and the rows the body is made of
Response(op, user, chat_id, status, detail, body) ==
    IF http = HttpUntracked THEN http
    ELSE [op |-> op, user |-> user, chat_id |-> chat_id, status |-> status,
          detail |-> detail, body |-> body]

\* The requests of create_llm_config followed step by step, none in flight
Creators == {"r1", "r2"}

NoCreate ==
    [pc |-> "idle", user |-> NoneVal, provider |-> NoneVal, model_name |-> NoneVal,
     is_default |-> FALSE, count |-> 0, status |-> NoneVal]

NoCreating == [r \in Creators |-> NoCreate]

\* ChatBase: the defaults of temperature, in tenths, and of max_tokens
DefaultTemperature == 7
DefaultMaxTokens == 1000

NoChat == [user_id |-> NoneVal, llm_provider |-> NoneVal, model_name |-> NoneVal,
           system_prompt |-> NoneVal, temperature |-> 0, max_tokens |-> 0]

\* Mutant of Msg: the content is left out.
MsgWithoutContent(role, content, ctype) == [role |-> role, content |-> <<>>, ctype |-> ctype]

\* Message / LLMMessage: role and content. A content is the tuple of the text
\* fragments it is the concatenation of; ctype is its Python type.
Msg(role, content, ctype) == [role |-> role, content |-> content, ctype |-> ctype]

\* Mutant of OwnChat: the query does not filter on the user.
AnyChat(user, id) == chats[id] # NoChat

\* The query of the chat endpoints: the row chat_id of the user
OwnChat(user, id) == chats[id] # NoChat /\ chats[id].user_id = user

\* The HTTPException of the chat endpoints for a chat the query does not find
ChatNotFound(op, user, id) == Response(op, user, id, "404", "Chat not found", <<>>)

\* create_chat: HTTP 400 unless validate_provider_config accepts the pair
create_chat ==
    \E id \in ChatIds, user \in ChatOwners, provider \in ChatProviders,
       model \in {"gpt-3.5-turbo", "gemini-2.5-pro", "gpt-9"},
       prompt \in {NoneVal, "You are helpful"} :
        LET db_chat == [user_id |-> user, llm_provider |-> provider,
                        model_name |-> model, system_prompt |-> prompt,
                        temperature |-> DefaultTemperature,
                        max_tokens |-> DefaultMaxTokens]
        IN  /\ chats[id] = NoChat
            /\ IF validate_provider_config(provider, model)
               THEN /\ chats' = [chats EXCEPT ![id] = db_chat]
                    /\ http' = Response("create_chat", user, id, "200", NoneVal, <<db_chat>>)
               ELSE /\ UNCHANGED chats
                    /\ http' = Response("create_chat", user, id, "400", "Invalid model", <<>>)
            /\ UNCHANGED <<factory, servers, heap, configDoc, diskOk, regcall, settings,
                           messages, llm_configs, turn, ws, refresh, call, creating>>

\* add_message: HTTP 404 unless the chat is the caller's
add_message ==
    \E id \in ChatIds, user \in Users, role \in {"user"} :
        LET db_message == Msg(role, <<"search for cats">>, "str")
        IN  /\ Len(messages[id]) < MaxMessages
            /\ IF OwnChat(user, id)
               THEN /\ messages' = [messages EXCEPT ![id] = Append(@, db_message)]
                    /\ http' = Response("add_message", user, id, "200", NoneVal, <<db_message>>)
               ELSE /\ UNCHANGED messages
                    /\ http' = ChatNotFound("add_message", user, id)
            /\ UNCHANGED <<factory, servers, heap, configDoc, diskOk, regcall, settings,
                           chats, llm_configs, turn, ws, refresh, call, creating>>

\* get_chat: HTTP 404 unless the chat is the caller's; the chat with its messages
get_chat ==
    \E id \in ChatIds, user \in Users :
        /\ http' = IF OwnChat(user, id)
                   THEN Response("get_chat", user, id, "200", NoneVal,
                                 <<chats[id]>> \o messages[id])
                   ELSE ChatNotFound("get_chat", user, id)
        /\ UNCHANGED <<factory, servers, heap, configDoc, diskOk, regcall, settings,
                       chats, messages, llm_configs, turn, ws, refresh, call, creating>>

\* update_chat: HTTP 404 unless the chat is the caller's; the fields the request
\* sets are assigned. ChatUpdate has a title, temperature, max_tokens and
\* system_prompt, each within the bounds of ChatBase.
update_chat ==
    \E id \in ChatIds, user \in Users,
       sets_prompt, sets_temperature, sets_max_tokens \in BOOLEAN,
       prompt \in {"", "Be brief"}, temperature \in {0, 20}, max_tokens \in {1, 4000} :
        LET chat == [chats[id] EXCEPT
                       !.system_prompt = IF sets_prompt THEN prompt ELSE @,
                       !.temperature = IF sets_temperature THEN temperature ELSE @,
                       !.max_tokens = IF sets_max_tokens THEN max_tokens ELSE @]
        IN  /\ IF OwnChat(user, id)
               THEN /\ chats' = [chats EXCEPT ![id] = chat]
                    /\ http' = Response("update_chat", user, id, "200", NoneVal,
                                        <<chat>> \o messages[id])
               ELSE /\ UNCHANGED chats
                    /\ http' = ChatNotFound("update_chat", user, id)
            /\ UNCHANGED <<factory, servers, heap, configDoc, diskOk, regcall, settings,
                           messages, llm_configs, turn, ws, refresh, call, creating>>

\* delete_chat: HTTP 404 unless the chat is the caller's; the chat is deleted and
\* its messages with it (the cascade of Chat.messages)
delete_chat ==
    \E id \in ChatIds, user \in Users :
        /\ IF OwnChat(user, id)
           THEN /\ chats' = [chats EXCEPT ![id] = NoChat]
                /\ messages' = [messages EXCEPT ![id] = <<>>]
                /\ http' = Response("delete_chat", user, id, "200", NoneVal, <<>>)
           ELSE /\ UNCHANGED <<chats, messages>>
                /\ http' = ChatNotFound("delete_chat", user, id)
        /\ UNCHANGED <<factory, servers, heap, configDoc, diskOk, regcall, settings,
                       llm_configs, turn, ws, refresh, call, creating>>

(***************************************************************************)
(* Provider adapters: generate_response                                    *)
(***************************************************************************)

\* What a vendor may reply. Each reply is a text; the adapters read three things
\* of it: whether it starts with "{", whether it contains "tool_call", and what
\* json.loads makes of it.
PlainText == "Here are 3 links about cats."
JsonNote == "{\"note\": \"no tool_call needed\"}"
JsonBroken == "{\"tool_call\": "
JsonToolCall == "{\"tool_call\": {\"name\": name, \"arguments\": {}}}"

\* The reply that asks for the tool `name`
ToolCallReply(name) == [text |-> JsonToolCall, name |-> name]

VendorReplies ==
    {[text |-> x, name |-> NoneVal] : x \in {PlainText, JsonNote, JsonBroken}}
    \cup {ToolCallReply(n) : n \in RequestedTools}

\* The replies the turns of the specifications get
TurnReplies == {r \in VendorReplies : r.text # JsonBroken}

\* content.strip().startswith('{')
StartsWithBrace(reply) == reply.text \in {JsonNote, JsonBroken, JsonToolCall}

\* 'tool_call' in content
ContainsMarker(reply) == reply.text \in {JsonNote, JsonBroken, JsonToolCall}

\* json.loads(content) succeeds
JsonLoads(reply) == reply.text \in {JsonNote, JsonToolCall}

\* The content an adapter hands to LLMResponse: the parsed dict when the reply
\* starts with "{", contains the marker and parses; the text otherwise.
\* GoogleProvider.generate_response never parses.
AdapterContent(cls, reply) ==
    IF cls # "GoogleProvider" /\ StartsWithBrace(reply) /\ ContainsMarker(reply)
       /\ JsonLoads(reply)
    THEN [ctype |-> "dict", reply |-> reply]
    ELSE [ctype |-> "str", reply |-> reply]

\* response.content.get("tool_call"): the value under the key, None without it
GetToolCall(content) ==
    IF content.reply.text = JsonToolCall THEN content.reply.name ELSE NoneVal

\* isinstance(response.content, dict) and response.content.get("tool_call")
IsToolCall(content) == content.ctype = "dict" /\ GetToolCall(content) # NoneVal

\* The exceptions generate_response raises, as the detail "Error generating
\* response: ..." of the HTTP 500 names them: the vendor call failed, or
\* LLMResponse refused a dict as its content (the validation error quotes the
\* value refused: a tool-call request or another JSON object)
VendorRaised == "Error generating response: vendor error"

RequestNotAccepted == "Error generating response: LLMResponse content {tool_call} is not a str"

ObjectNotAccepted == "Error generating response: LLMResponse content {} is not a str"

NotAccepted(content) == IF IsToolCall(content) THEN RequestNotAccepted ELSE ObjectNotAccepted

\* Bound of the model: the length of the conversations handed to an adapter
MaxConversation == 3

\* The messages of the conversations handed to the adapters
ConversationMessages ==
    {Msg("system", <<"You are helpful">>, "str"), Msg("system", <<"Be brief">>, "str"),
     Msg("user", <<"search for cats">>, "str"), Msg("assistant", <<PlainText>>, "str")}

Conversations == UNION {[1..n -> ConversationMessages] : n \in 0..MaxConversation}

\* LLMInterface.format_messages: every message as {"role", "content"}, in order
format_messages(msgs) ==
    [k \in 1..Len(msgs) |-> [role |-> msgs[k].role, content |-> msgs[k].content]]

\* What mcp_context is rendered to on Google's system channel: str(mcp_context)
McpContextText == "{'servers': [...]}"

\* What an adapter passes on the vendor's system channel (<<>>: nothing).
\* AnthropicProvider: the loop assigns system_message at every system message, so
\* the last one stays. GoogleProvider: system_instruction is the MCP context.
\* OpenAIProvider and GroqProvider have no such channel.
system_message(cls, msgs) ==
    LET at == {k \in 1..Len(msgs) : msgs[k].role = "system"}
    IN  IF cls = "AnthropicProvider"
        THEN IF at = {} THEN <<>>
             ELSE msgs[CHOOSE k \in at : \A j \in at : k >= j].content
        ELSE IF cls = "GoogleProvider" THEN <<McpContextText>>
        ELSE <<>>

\* The messages an adapter sends inline. AnthropicProvider leaves every system
\* message out; the others send all of them.
formatted_messages(cls, msgs) ==
    IF cls = "AnthropicProvider"
    THEN format_messages(SelectSeq(msgs, LAMBDA m : m.role # "system"))
    ELSE format_messages(msgs)

\* No call of generate_response yet
NoGenerate ==
    [op |-> "none", cls |-> NoneVal, messages |-> <<>>, reply |-> [text |-> NoneVal, name |-> NoneVal],
     system |-> <<>>, sent |-> <<>>, raised |-> NoneVal,
     content |-> [ctype |-> NoneVal, reply |-> [text |-> NoneVal, name |-> NoneVal]]]

\* generate_response of an adapter on a conversation: the vendor is called with
\* the system channel and the inline messages, and its reply is returned as an
\* LLMResponse or an exception is raised (by the vendor call, or by LLMResponse
\* refusing a dict).
generate_response ==
    \E cls \in {providers[p] : p \in LLMProvider}, msgs \in Conversations, reply \in VendorReplies,
       fails \in BOOLEAN, accepted \in BOOLEAN :
        LET content == AdapterContent(cls, reply)
            sent == [NoGenerate EXCEPT !.op = "generate_response", !.cls = cls,
                                       !.messages = msgs,
                                       !.system = system_message(cls, msgs),
                                       !.sent = formatted_messages(cls, msgs)]
        IN  /\ call.op = "none"
            /\ call' = IF fails THEN [sent EXCEPT !.raised = VendorRaised]
                       ELSE IF content.ctype = "dict" /\ ~accepted
                       THEN [sent EXCEPT !.reply = reply, !.raised = NotAccepted(content)]
                       ELSE [sent EXCEPT !.reply = reply, !.content = content]
            /\ UNCHANGED <<factory, servers, heap, configDoc, diskOk, regcall, settings,
                           chats, messages, llm_configs, turn, ws, refresh, http, creating>>

\* The caller has taken the LLMResponse or the exception of the call.
GenerateReturn ==
    /\ call.op = "generate_response"
    /\ call' = NoGenerate
    /\ UNCHANGED <<factory, servers, heap, configDoc, diskOk, regcall, settings,
                   chats, messages, llm_configs, turn, ws, refresh, http, creating>>

(***************************************************************************)
(* stream_chat                                                             *)
(***************************************************************************)

Turns == {"t1"}

\* A field of ChatStreamRequest the request leaves out (None)
Omitted == -1

NoArgs == [temperature |-> Omitted, max_tokens |-> Omitted]

\* ChatStreamRequest: temperature, in tenths, within 0..20 and max_tokens within
\* 1..4000, each optional. The specifications that do not follow the responses
\* take the requests that leave both out.
ChatStreamRequests ==
    IF http = HttpUntracked THEN {NoArgs}
    ELSE [temperature : {Omitted, 0, 20}, max_tokens : {Omitted, 1, 4000}]

\* Python's `a or b` on numbers: b when a is None or zero
Or(a, b) == IF a = Omitted \/ a = 0 THEN b ELSE a

\* The temperature and max_tokens stream_chat passes to generate_response
GenerateArgs(request, chat) ==
    [temperature |-> Or(request.temperature, chat.temperature),
     max_tokens |-> Or(request.max_tokens, chat.max_tokens)]

IdleTurn ==
    [pc |-> "idle", user |-> NoneVal, chat_id |-> NoneVal, llm_provider |-> NoAdapter,
     \* the request's fields, the chat row as loaded, the arguments of the last
     \* generate call
     request |-> NoArgs, chat |-> NoChat, args |-> NoArgs,
     enabled_servers |-> <<>>, llm_messages |-> <<>>, current_messages |-> <<>>,
     tool_call_chain |-> <<>>, calls |-> 0,
     \* the response: HTTP status, the error behind a failure, the content returned
     status |-> NoneVal, error |-> NoneVal, content |-> <<>>,
     \* whether the assistant message was stored
     saved |-> FALSE,
     \* the server the last tool call was resolved to
     server |-> NoneVal]

\* Mutant of get_enabled_servers: the disabled flag is not looked at.
get_servers_ignoring_flag == servers

\* MCPService.get_enabled_servers: a new dict of the servers not disabled, holding
\* the registry's own objects
get_enabled_servers ==
    SelectSeq(servers, LAMBDA e : ~heap[e.obj].disabled)

\* any(t["name"] == tool_name for t in s.tools)
HasTool(server, tool_name) ==
    \E i \in 1..Len(DictPrefix(server.tools)) : server.tools[i].name = tool_name

\* The generator raises TypeError: the first server of the snapshot that has the
\* tool or whose scan raises is one whose scan raises
ResolveRaises(enabled_servers, tool_name) ==
    \E i \in 1..Len(enabled_servers) :
        /\ ToolsRaise(heap[enabled_servers[i].obj].tools, tool_name)
        /\ \A j \in 1..(i - 1) :
              /\ ~HasTool(heap[enabled_servers[j].obj], tool_name)
              /\ ~ToolsRaise(heap[enabled_servers[j].obj].tools, tool_name)

\* Mutant of ResolveServer: a server is found whatever the name.
ResolveAnyServer(enabled_servers, tool_name) ==
    IF Len(enabled_servers) > 0 THEN 1 ELSE 0

\* next((s for s in enabled_servers.values() if any(...)), None): the position in
\* the snapshot of the first server that has a tool dict with the name, 0 for None
ResolveServer(enabled_servers, tool_name) ==
    IF \E i \in 1..Len(enabled_servers) : HasTool(heap[enabled_servers[i].obj], tool_name)
    THEN CHOOSE i \in 1..Len(enabled_servers) :
            /\ HasTool(heap[enabled_servers[i].obj], tool_name)
            /\ \A j \in 1..(i - 1) : ~HasTool(heap[enabled_servers[j].obj], tool_name)
    ELSE 0

\* mcp_context["servers"] of a request: one entry per server of enabled_servers,
\* in the dict's order; "tools" is the object's own list
McpContext(tr) ==
    [k \in 1..Len(tr.enabled_servers) |->
        [name |-> heap[tr.enabled_servers[k].obj].name,
         description |-> heap[tr.enabled_servers[k].obj].description,
         tools |-> heap[tr.enabled_servers[k].obj].tools]]

\* The api key stream_chat takes from settings for the chat's provider
SettingsKey(provider) == IF provider \in settings THEN "sk-key" ELSE NoneVal

\* Mutant of BuildMessages: the system prompt is put after the stored messages.
BuildMessagesPromptLast(chat, stored) ==
    [i \in 1..Len(stored) |-> Msg(stored[i].role, stored[i].content, stored[i].ctype)]
    \o (IF Truthy(chat.system_prompt)
        THEN <<Msg("system", <<chat.system_prompt>>, "str")>> ELSE <<>>)

\* llm_messages: the system prompt if set, then the stored messages in order
BuildMessages(chat, stored) ==
    (IF Truthy(chat.system_prompt)
     THEN <<Msg("system", <<chat.system_prompt>>, "str")>> ELSE <<>>)
    \o [i \in 1..Len(stored) |-> Msg(stored[i].role, stored[i].content, stored[i].ctype)]

\* stream_chat up to its first await: the chat, the API key, the stored messages,
\* the enabled servers and the adapter
StreamChat(t) ==
    \E id \in DOMAIN chats, user \in Users, request \in ChatStreamRequests :
        /\ turn[t].pc = "idle"
        /\ Len(messages[id]) < MaxMessages
        /\ LET chat == chats[id]
               made == create_provider(chat.llm_provider, SettingsKey(chat.llm_provider),
                                       chat.model_name)
               req == [IdleTurn EXCEPT !.user = user, !.chat_id = id, !.request = request]
           IN  turn' = [turn EXCEPT ![t] =
                   IF chat = NoChat \/ chat.user_id # user
                   THEN [req EXCEPT !.pc = "done", !.status = "404",
                                    !.error = "Chat not found"]
                   ELSE IF ~Truthy(SettingsKey(chat.llm_provider))
                   THEN [req EXCEPT !.pc = "done", !.status = "400",
                                    !.error = "No API key configured"]
                   ELSE IF made.raised # NoneVal
                   THEN [req EXCEPT !.pc = "done", !.status = "500",
                                    !.error = "Failed to initialize LLM provider"]
                   ELSE [req EXCEPT !.pc = "generate",
                                    !.chat = chat,
                                    !.llm_provider = made.adapter,
                                    !.enabled_servers = get_enabled_servers,
                                    !.llm_messages = BuildMessages(chat, messages[id]),
                                    !.current_messages = BuildMessages(chat, messages[id])]]
        /\ UNCHANGED <<factory, servers, heap, configDoc, diskOk, regcall, settings,
                       chats, messages, llm_configs, ws, refresh, call, http, creating>>

\* The detail of the HTTPException raised when no server is found
NotFound == "Tool server not found or not enabled"

\* The TypeError of t["name"] on an element that is not a tool dict
NotSubscriptable == "Error generating response: tuple indices must be integers"

\* Mutant of AfterToolCall: tool_call_chain is one list shared by the requests in
\* flight, so the call is appended to the longest chain there is.
AfterToolCallSharedChain(tr, tool_name) ==
    LET i == ResolveServer(tr.enabled_servers, tool_name)
        chains == {turn[u].tool_call_chain : u \in DOMAIN turn}
        shared == CHOOSE c \in chains : \A d \in chains : Len(c) >= Len(d)
        asked == [tr EXCEPT !.tool_call_chain = Append(shared, tool_name)]
    IN  IF i = 0
        THEN [asked EXCEPT !.pc = "done", !.status = "500", !.server = NoneVal,
                           !.error = NotFound]
        ELSE [asked EXCEPT !.server = tr.enabled_servers[i].name,
                           !.current_messages = Append(@, Msg("tool", <<tool_name>>, "str"))]

\* Mutant of AfterToolCall: when no server is found the simulated result is
\* returned as the answer.
AfterToolCallDefaultAnswer(tr, tool_name) ==
    LET i == ResolveServer(tr.enabled_servers, tool_name)
        asked == [tr EXCEPT !.tool_call_chain = Append(@, tool_name)]
    IN  IF i = 0
        THEN [asked EXCEPT !.pc = "done", !.status = "500", !.server = NoneVal,
                           !.error = NotFound, !.content = <<tool_name>>]
        ELSE [asked EXCEPT !.server = tr.enabled_servers[i].name,
                           !.current_messages = Append(@, Msg("tool", <<tool_name>>, "str"))]

\* The turn after a reply that asks for a tool: the call joins the chain, the
\* server is looked up, and either the turn fails or the result is appended.
AfterToolCall(tr, tool_name) ==
    LET i == ResolveServer(tr.enabled_servers, tool_name)
        asked == [tr EXCEPT !.tool_call_chain = Append(@, tool_name)]
    IN  IF ResolveRaises(tr.enabled_servers, tool_name)
        THEN [asked EXCEPT !.pc = "done", !.status = "500", !.server = NoneVal,
                           !.error = NotSubscriptable]
        ELSE IF i = 0
        THEN [asked EXCEPT !.pc = "done", !.status = "500", !.server = NoneVal,
                           !.error = NotFound]
        ELSE [asked EXCEPT !.server = tr.enabled_servers[i].name,
                           !.current_messages = Append(@, Msg("tool", <<tool_name>>, "str"))]

\* The exception of db.commit when the driver does not bind a dict to the Text
\* column Message.content
NotStored == "Error generating response: dict is not bound to messages.content"

\* One pass of the loop of stream_chat: generate_response returns or raises, and
\* the reply is acted on. fails: the vendor call raises. accepted: whether
\* LLMResponse(content=...) takes a dict for its str field (decided by the
\* validation library); a refusal is raised like a vendor failure. stored:
\* whether db.commit binds a dict to the Text column (decided by the driver).
GenerateResponse(t) ==
    \E reply \in TurnReplies, fails \in BOOLEAN, accepted \in BOOLEAN, stored \in BOOLEAN :
        LET tr == [turn[t] EXCEPT !.calls = @ + 1,
                                  !.args = GenerateArgs(turn[t].request, turn[t].chat)]
            content == AdapterContent(tr.llm_provider.cls, reply)
        IN  /\ turn[t].pc = "generate"
            /\ turn[t].calls < MaxGenerate
            /\ IF fails \/ (content.ctype = "dict" /\ ~accepted)
               THEN /\ turn' = [turn EXCEPT ![t] =
                                  [tr EXCEPT !.pc = "done", !.status = "500",
                                             !.error = IF fails THEN VendorRaised
                                                       ELSE NotAccepted(content)]]
                    /\ UNCHANGED messages
               ELSE IF IsToolCall(content)
               THEN /\ turn' = [turn EXCEPT ![t] = AfterToolCall(tr, GetToolCall(content))]
                    /\ UNCHANGED messages
               ELSE IF content.ctype = "dict" /\ ~stored
               THEN /\ turn' = [turn EXCEPT ![t] =
                                  [tr EXCEPT !.pc = "done", !.status = "500",
                                             !.error = NotStored]]
                    /\ UNCHANGED messages
               ELSE /\ turn' = [turn EXCEPT ![t] =
                                  [tr EXCEPT !.pc = "done", !.status = "200",
                                             !.content = <<reply.text>>, !.saved = TRUE]]
                    /\ messages' = [messages EXCEPT ![tr.chat_id] =
                                      Append(@, Msg("assistant", <<reply.text>>, content.ctype))]
            /\ UNCHANGED <<factory, servers, heap, configDoc, diskOk, regcall, settings,
                           chats, llm_configs, ws, refresh, call, http, creating>>

\* Mutant of TurnEnd: the request disables the servers of its snapshot when it ends.
TurnEndDisablingServers(t) ==
    /\ turn[t].pc = "done"
    /\ turn' = [turn EXCEPT ![t] = IdleTurn]
    /\ heap' = [id \in ObjIds |->
                  IF \E k \in 1..Len(turn[t].enabled_servers) : turn[t].enabled_servers[k].obj = id
                  THEN SetServerDisabled(heap[id], TRUE) ELSE heap[id]]
    /\ UNCHANGED <<factory, servers, configDoc, diskOk, regcall, settings,
                   chats, messages, llm_configs, ws, refresh, call, http, creating>>

\* The response is sent and the request's state is dropped.
TurnEnd(t) ==
    /\ turn[t].pc = "done"
    /\ turn' = [turn EXCEPT ![t] = IdleTurn]
    /\ UNCHANGED <<factory, servers, heap, configDoc, diskOk, regcall, settings,
                   chats, messages, llm_configs, ws, refresh, call, http, creating>>

(***************************************************************************)
(* LLM configurations and websocket_chat                                   *)
(***************************************************************************)

\* Bounds of the model
MaxConfigs == 2
MaxChunks == 2

\* create_llm_config: HTTP 400 for an invalid model or a second configuration of
\* the provider; the first configuration of a user is the default one.
create_llm_config ==
    \E user \in Users, provider \in ChatProviders,
       model \in {"gpt-3.5-turbo", "gemini-2.5-pro"},
       api_key \in {NoneVal, "sk-key"}, is_default \in BOOLEAN :
        LET mine(i) == llm_configs[i].user_id = user
            existing == \E i \in 1..Len(llm_configs) :
                            mine(i) /\ llm_configs[i].provider = provider
            cleared == [i \in 1..Len(llm_configs) |->
                          IF is_default /\ mine(i) /\ llm_configs[i].is_default
                          THEN [llm_configs[i] EXCEPT !.is_default = FALSE]
                          ELSE llm_configs[i]]
            count == Cardinality({i \in 1..Len(llm_configs) : mine(i)})
        IN  /\ Len(llm_configs) < MaxConfigs
            /\ IF ~validate_provider_config(provider, model) \/ existing
               THEN UNCHANGED llm_configs
               ELSE llm_configs' = Append(cleared,
                        [user_id |-> user, provider |-> provider,
                         api_key |-> IF Truthy(api_key) THEN api_key ELSE NoneVal,
                         model_name |-> model,
                         is_default |-> (is_default \/ count = 0)])
            /\ UNCHANGED <<factory, servers, heap, configDoc, diskOk, regcall, settings,
                           chats, messages, turn, ws, refresh, call, http, creating>>

\* create_llm_config of request r up to the query for a configuration of the
\* provider (lines 98-119): HTTP 400 for an invalid model or when the query finds
\* a row. The request keeps what it was asked and the number of rows it saw.
CreateCheck(r) ==
    \E user \in Users, provider \in ChatProviders,
       model \in {"gpt-3.5-turbo", "gemini-2.5-pro"}, is_default \in BOOLEAN :
        LET mine(i) == llm_configs[i].user_id = user
            existing == \E i \in 1..Len(llm_configs) :
                            mine(i) /\ llm_configs[i].provider = provider
            req == [pc |-> "insert", user |-> user, provider |-> provider,
                    model_name |-> model, is_default |-> is_default,
                    count |-> Cardinality({i \in 1..Len(llm_configs) : mine(i)}),
                    status |-> NoneVal]
        IN  /\ creating[r].pc = "idle"
            /\ creating' = [creating EXCEPT ![r] =
                   IF ~validate_provider_config(provider, model) \/ existing
                   THEN [req EXCEPT !.pc = "done", !.status = "400"]
                   ELSE req]
            /\ UNCHANGED <<factory, servers, heap, configDoc, diskOk, regcall, settings,
                           chats, messages, llm_configs, turn, ws, refresh, call, http>>

\* create_llm_config of request r from there to the commit (lines 121-152): the
\* user's default rows are cleared for a row asked to be the default one, the
\* rows are counted, the row is added. The count is the one of the request's
\* first query or the one of the table now, as the database isolates reads.
CreateInsert(r) ==
    \E snapshot \in BOOLEAN :
        LET req == creating[r]
            mine(i) == llm_configs[i].user_id = req.user
            cleared == [i \in 1..Len(llm_configs) |->
                          IF req.is_default /\ mine(i) /\ llm_configs[i].is_default
                          THEN [llm_configs[i] EXCEPT !.is_default = FALSE]
                          ELSE llm_configs[i]]
            count == IF snapshot THEN req.count
                     ELSE Cardinality({i \in 1..Len(llm_configs) : mine(i)})
        IN  /\ req.pc = "insert"
            /\ Len(llm_configs) < MaxConfigs
            /\ llm_configs' = Append(cleared,
                    [user_id |-> req.user, provider |-> req.provider,
                     api_key |-> "sk-key", model_name |-> req.model_name,
                     is_default |-> (req.is_default \/ count = 0)])
            /\ creating' = [creating EXCEPT ![r] = [req EXCEPT !.pc = "done", !.status = "200"]]
            /\ UNCHANGED <<factory, servers, heap, configDoc, diskOk, regcall, settings,
                           chats, messages, turn, ws, refresh, call, http>>

\* The place of a deleted row: the id of a row is its place in the table and is
\* not given to a later row.
DeletedRow ==
    [user_id |-> NoneVal, provider |-> NoneVal, api_key |-> NoneVal,
     model_name |-> NoneVal, is_default |-> FALSE]

\* The row config_id of the user, as the query of the three handlers below finds it
OwnConfig(user, config_id) ==
    config_id \in 1..Len(llm_configs) /\ llm_configs[config_id].user_id = user

\* update_llm_config: HTTP 404 for a row that is not the user's, 400 for a model
\* name that is not empty and that the row's provider does not have; is_default = true takes the flag from the
\* user's other rows; the fields the request sets are assigned.
update_llm_config ==
    \E user \in Users, config_id \in 1..MaxConfigs,
       sets_model, sets_key, sets_default \in BOOLEAN :
      \E is_default \in (IF sets_default THEN BOOLEAN ELSE {FALSE}),
         model_name \in (IF sets_model THEN {"gemini-2.5-pro", ""} ELSE {""}),
         api_key \in (IF sets_key THEN {"", "sk-new"} ELSE {""}) :
        LET config == llm_configs[config_id]
            cleared == [i \in 1..Len(llm_configs) |->
                          IF /\ sets_default /\ is_default
                             /\ llm_configs[i].user_id = user /\ i # config_id
                             /\ llm_configs[i].is_default
                          THEN [llm_configs[i] EXCEPT !.is_default = FALSE]
                          ELSE llm_configs[i]]
        IN  /\ IF ~OwnConfig(user, config_id)
               THEN UNCHANGED llm_configs
               ELSE IF /\ sets_model /\ Truthy(model_name)
                       /\ ~validate_provider_config(config.provider, model_name)
               THEN UNCHANGED llm_configs
               ELSE llm_configs' = [cleared EXCEPT ![config_id] =
                        [config EXCEPT
                           !.model_name = IF sets_model THEN model_name ELSE @,
                           !.is_default = IF sets_default THEN is_default ELSE @,
                           !.api_key = IF ~sets_key THEN @
                                       ELSE IF Truthy(api_key) THEN api_key ELSE NoneVal]]
            /\ UNCHANGED <<factory, servers, heap, configDoc, diskOk, regcall, settings,
                           chats, messages, turn, ws, refresh, call, http, creating>>

\* delete_llm_config: HTTP 404 for a row that is not the user's; the row is deleted.
delete_llm_config ==
    \E user \in Users, config_id \in 1..MaxConfigs :
        /\ IF ~OwnConfig(user, config_id)
           THEN UNCHANGED llm_configs
           ELSE llm_configs' = [llm_configs EXCEPT ![config_id] = DeletedRow]
        /\ UNCHANGED <<factory, servers, heap, configDoc, diskOk, regcall, settings,
                           chats, messages, turn, ws, refresh, call, http, creating>>

\* Mutant of set_default_config: the user's other rows keep their flag.
set_default_config_only ==
    \E user \in Users, config_id \in 1..MaxConfigs :
        /\ IF ~OwnConfig(user, config_id)
           THEN UNCHANGED llm_configs
           ELSE llm_configs' = [llm_configs EXCEPT ![config_id].is_default = TRUE]
        /\ UNCHANGED <<factory, servers, heap, configDoc, diskOk, regcall, settings,
                           chats, messages, turn, ws, refresh, call, http, creating>>

\* set_default_config: HTTP 404 for a row that is not the user's; the flag is
\* taken from every other row of the user and the row is made the default one.
set_default_config ==
    \E user \in Users, config_id \in 1..MaxConfigs :
        /\ IF ~OwnConfig(user, config_id)
           THEN UNCHANGED llm_configs
           ELSE llm_configs' = [i \in 1..Len(llm_configs) |->
                    IF i = config_id
                    THEN [llm_configs[i] EXCEPT !.is_default = TRUE]
                    ELSE IF llm_configs[i].user_id = user
                    THEN [llm_configs[i] EXCEPT !.is_default = FALSE]
                    ELSE llm_configs[i]]
        /\ UNCHANGED <<factory, servers, heap, configDoc, diskOk, regcall, settings,
                           chats, messages, turn, ws, refresh, call, http, creating>>

WsOpen ==
    [pc |-> "receive", user |-> NoneVal, chat_id |-> NoneVal, llm_provider |-> NoAdapter,
     llm_messages |-> <<>>, assistant_content |-> <<>>, sent |-> <<>>, saved |-> <<>>]

Frame(type, content) == [type |-> type, content |-> content]

\* websocket_chat, from receive_text to the confirmation of the user message:
\* the token, the chat and the content are checked, the user message is stored.
WsReceive ==
    \E token \in Users \cup {NoneVal, "expired"}, id \in ChatIds,
       message \in {"", "search for cats"} :
        LET req == [WsOpen EXCEPT !.chat_id = id]
            error(detail) == [req EXCEPT !.sent = <<Frame("error", <<detail>>)>>]
        IN  /\ ws.pc = "receive"
            /\ Len(messages[id]) < MaxMessages
            /\ IF token = NoneVal
               THEN ws' = error("Token required") /\ UNCHANGED messages
               ELSE IF token \notin Users
               THEN ws' = error("Invalid token") /\ UNCHANGED messages
               ELSE IF chats[id] = NoChat \/ chats[id].user_id # token
               THEN ws' = error("Chat not found") /\ UNCHANGED messages
               ELSE IF message = ""
               THEN ws' = error("Message content required") /\ UNCHANGED messages
               ELSE /\ messages' = [messages EXCEPT ![id] =
                                       Append(@, Msg("user", <<message>>, "str"))]
                    /\ ws' = [req EXCEPT !.pc = "respond", !.user = token,
                                         !.saved = <<"user">>,
                                         !.sent = <<Frame("user_message", <<message>>)>>]
            /\ UNCHANGED <<factory, servers, heap, configDoc, diskOk, regcall, settings,
                           chats, llm_configs, turn, refresh, call, http, creating>>

\* The user's configuration for the provider: .first() of the query, 0 for None
FirstConfig(user, provider) ==
    LET hit(i) == llm_configs[i].user_id = user /\ llm_configs[i].provider = provider
    IN  IF \E i \in 1..Len(llm_configs) : hit(i)
        THEN CHOOSE i \in 1..Len(llm_configs) : hit(i) /\ \A j \in 1..(i - 1) : ~hit(j)
        ELSE 0

\* Mutant of WsRespond: an error ends the session.
WsRespondFatal ==
    LET chat == chats[ws.chat_id]
        i == FirstConfig(ws.user, chat.llm_provider)
        made == create_provider(chat.llm_provider, llm_configs[i].api_key, chat.model_name)
        error(detail) == [ws EXCEPT !.pc = "closed", !.sent = Append(@, Frame("error", <<detail>>))]
    IN  /\ ws.pc = "respond"
        /\ ws' = IF i = 0 \/ ~Truthy(llm_configs[i].api_key)
                 THEN error("No API key configured")
                 ELSE IF made.raised # NoneVal \/ made.adapter.cls # "GoogleProvider"
                 THEN error("Failed to generate response")
                 ELSE [ws EXCEPT !.pc = "stream", !.llm_provider = made.adapter,
                                 !.llm_messages = BuildMessages(chat, messages[ws.chat_id])]
        /\ UNCHANGED <<factory, servers, heap, configDoc, diskOk, regcall, settings,
                       chats, messages, llm_configs, turn, refresh, call, http, creating>>

\* websocket_chat, from the configuration lookup to the call of stream_response.
\* Only GoogleProvider.stream_response is a generator; the others raise.
WsRespond ==
    LET chat == chats[ws.chat_id]
        i == FirstConfig(ws.user, chat.llm_provider)
        made == create_provider(chat.llm_provider, llm_configs[i].api_key, chat.model_name)
        error(detail) == [ws EXCEPT !.pc = "receive", !.sent = Append(@, Frame("error", <<detail>>))]
    IN  /\ ws.pc = "respond"
        /\ ws' = IF i = 0 \/ ~Truthy(llm_configs[i].api_key)
                 THEN error("No API key configured")
                 ELSE IF made.raised # NoneVal \/ made.adapter.cls # "GoogleProvider"
                 THEN error("Failed to generate response")
                 ELSE [ws EXCEPT !.pc = "stream", !.llm_provider = made.adapter,
                                 !.llm_messages = BuildMessages(chat, messages[ws.chat_id])]
        /\ UNCHANGED <<factory, servers, heap, configDoc, diskOk, regcall, settings,
                       chats, messages, llm_configs, turn, refresh, call, http, creating>>

\* Mutant of WsChunk: the chunk is put in front of assistant_content.
WsChunkPrepended ==
    \E chunk \in {"Here are ", "3 links"} :
        /\ ws.pc = "stream"
        /\ Len(ws.assistant_content) < MaxChunks
        /\ ws' = [ws EXCEPT !.assistant_content = <<chunk>> \o @,
                            !.sent = Append(@, Frame("assistant_chunk", <<chunk>>))]
        /\ UNCHANGED <<factory, servers, heap, configDoc, diskOk, regcall, settings,
                       chats, messages, llm_configs, turn, refresh, call, http, creating>>

\* One chunk of the stream: appended to assistant_content and sent on.
WsChunk ==
    \E chunk \in {"Here are ", "3 links"} :
        /\ ws.pc = "stream"
        /\ Len(ws.assistant_content) < MaxChunks
        /\ ws' = [ws EXCEPT !.assistant_content = Append(@, chunk),
                            !.sent = Append(@, Frame("assistant_chunk", <<chunk>>))]
        /\ UNCHANGED <<factory, servers, heap, configDoc, diskOk, regcall, settings,
                       chats, messages, llm_configs, turn, refresh, call, http, creating>>

\* The stream ends: the assistant message is stored and the completion is sent.
WsComplete ==
    /\ ws.pc = "stream"
    /\ messages' = [messages EXCEPT ![ws.chat_id] =
                       Append(@, Msg("assistant", ws.assistant_content, "str"))]
    /\ ws' = [ws EXCEPT !.pc = "receive", !.saved = Append(@, "assistant"),
                        !.sent = Append(@, Frame("assistant_complete", ws.assistant_content))]
    /\ UNCHANGED <<factory, servers, heap, configDoc, diskOk, regcall, settings,
                   chats, llm_configs, turn, refresh, call, http, creating>>

\* The stream raises: the error is sent, nothing is stored.
WsStreamError ==
    /\ ws.pc = "stream"
    /\ ws' = [ws EXCEPT !.pc = "receive",
                        !.sent = Append(@, Frame("error", <<"Failed to generate response">>))]
    /\ UNCHANGED <<factory, servers, heap, configDoc, diskOk, regcall, settings,
                   chats, messages, llm_configs, turn, refresh, call, http, creating>>

(***************************************************************************)
(* Specifications                                                          *)
(***************************************************************************)

\* An entry of the configuration document as save_config writes it: the server's
\* name and its six keys
DocEntry(name, disabled, tools) ==
    [name |-> name,
     config |-> [command |-> List(<<"npx">>), args |-> <<"-y">>, env |-> {},
                 disabled |-> disabled, description |-> "", tools |-> tools]]

\* A configuration document: filesystem and brave-search, each with a tool named
\* search, everything enabled.
TwoServerDoc ==
    <<DocEntry("filesystem", FALSE, <<[name |-> "search", disabled |-> FALSE]>>),
      DocEntry("brave-search", FALSE, <<[name |-> "search", disabled |-> FALSE]>>)>>

\* The configuration documents the registry specification starts from: filesystem
\* with one tool, with two, with two of the same name, or missing; brave-search
\* without tools, or missing.
ConfigDocs ==
    LET tool(n) == [name |-> n, disabled |-> FALSE]
        fs == {<<>>} \cup {<<DocEntry("filesystem", FALSE, tl)>> :
                              tl \in {<<tool("read_file")>>, <<tool("read_file"), tool("search")>>,
                                      <<tool("search"), tool("search")>>}}
        bs == {<<>>, <<DocEntry("brave-search", TRUE, <<>>)>>}
    IN  {a \o b : a \in fs, b \in bs}

\* MCPService.__init__ on the document doc
RegistryInit(doc) ==
    /\ configDoc = doc
    /\ servers = LoadedServers(doc)
    /\ heap = LoadedHeap(doc)
    /\ diskOk = TRUE

FactoryInit == factory = FactoryIdle(NoneVal, NoneVal)

TablesInit ==
    /\ chats = [id \in ChatIds |-> NoChat]
    /\ messages = [id \in ChatIds |-> <<>>]
    /\ llm_configs = <<>>
    /\ turn = [t \in Turns |-> IdleTurn]
    /\ ws = WsOpen
    /\ refresh = RefreshIdle
    /\ call = NoGenerate
    /\ http = HttpUntracked
    /\ creating = NoCreating

\* stream_chat turns, with the registry switched under them
Init ==
    /\ FactoryInit
    /\ RegistryInit(TwoServerDoc)
    /\ regcall = Untracked
    /\ settings \in {{"openai"}, ChatProviders}
    /\ TablesInit

Next ==
    \/ create_chat
    \/ add_message
    \/ \E t \in Turns : StreamChat(t)
    \/ \E t \in Turns : GenerateResponse(t)
    \/ \E t \in Turns : TurnEnd(t)
    \/ enable_server
    \/ disable_server
    \/ enable_tool
    \/ disable_tool

Spec == Init /\ [][Next]_vars

\* The factory alone, on every pair of arguments
InitFactory ==
    /\ \E p \in ProviderInputs, m \in ModelInputs : factory = FactoryIdle(p, m)
    /\ RegistryInit(TwoServerDoc)
    /\ regcall = Untracked
    /\ settings = {}
    /\ TablesInit

NextFactory == ValidateProviderConfig \/ CreateProvider

SpecFactory == InitFactory /\ [][NextFactory]_vars

\* The registry alone, from every configuration document, on a disk that may fail
InitRegistry ==
    /\ FactoryInit
    /\ \E doc \in ConfigDocs : RegistryInit(doc)
    /\ regcall = NoCall
    /\ settings = {}
    /\ TablesInit

NextRegistry ==
    \/ enable_server
    \/ disable_server
    \/ enable_tool
    \/ disable_tool
    \/ DiskChange

SpecRegistry == InitRegistry /\ [][NextRegistry]_vars

\* The registry filled by add_server, saved and loaded again
InitRoundTrip ==
    /\ FactoryInit
    /\ RegistryInit(<<>>)
    /\ regcall = NoCall
    /\ settings = {}
    /\ TablesInit

NextRoundTrip ==
    \/ add_server
    \/ save_config
    \/ load_config
    \/ DiskChange

SpecRoundTrip == InitRoundTrip /\ [][NextRoundTrip]_vars

\* The documents the application starts on in the refresh specification: two
\* servers, whose commands are lists, plain strings or empty
RefreshDocs ==
    LET entry(name, command, tools) ==
            [name |-> name,
             config |-> [command |-> command, args |-> <<>>, env |-> {},
                         disabled |-> FALSE, description |-> "", tools |-> tools]]
        commands == {List(<<"npx">>), List(<<>>), Str("node")}
    IN  {<<entry("filesystem", c1, t1), entry("brave-search", c2, t2)>> :
            c1 \in commands, c2 \in commands,
            t1 \in {<<>>, <<[name |-> "read_file", disabled |-> TRUE]>>},
            t2 \in {<<[name |-> "search", disabled |-> FALSE]>>}}

\* Application startup: the registry is loaded, then every server is refreshed
InitRefresh ==
    /\ FactoryInit
    /\ \E doc \in RefreshDocs : RegistryInit(doc)
    /\ regcall = Untracked
    /\ settings = {}
    /\ TablesInit

NextRefresh == refresh_all_mcp_tools

SpecRefresh == InitRefresh /\ [][NextRefresh]_vars

\* websocket_chat and the tables it reads
InitWs ==
    /\ FactoryInit
    /\ RegistryInit(TwoServerDoc)
    /\ regcall = Untracked
    /\ settings = {}
    /\ TablesInit

NextWs ==
    \/ create_chat
    \/ create_llm_config
    \/ WsReceive
    \/ WsRespond
    \/ WsChunk
    \/ WsComplete
    \/ WsStreamError

SpecWs == InitWs /\ [][NextWs]_vars

\* The requests on the LLM configurations of the users, one served after another
InitConfigs ==
    /\ FactoryInit
    /\ RegistryInit(TwoServerDoc)
    /\ regcall = Untracked
    /\ settings = {}
    /\ TablesInit

NextConfigs ==
    \/ create_llm_config
    \/ update_llm_config
    \/ set_default_config
    \/ delete_llm_config

SpecConfigs == InitConfigs /\ [][NextConfigs]_vars

\* Two create_llm_config requests, each served once, their steps interleaved in
\* every way, and rows deleted between them
InitCreating ==
    /\ FactoryInit
    /\ RegistryInit(TwoServerDoc)
    /\ regcall = Untracked
    /\ settings = {}
    /\ TablesInit

NextCreating ==
    \/ \E r \in Creators : CreateCheck(r)
    \/ \E r \in Creators : CreateInsert(r)
    \/ delete_llm_config

SpecCreating == InitCreating /\ [][NextCreating]_vars

\* update_server on servers whose flags have been switched, its calls followed
InitUpdate ==
    /\ FactoryInit
    /\ RegistryInit(TwoServerDoc)
    /\ regcall = NoCall
    /\ settings = {}
    /\ TablesInit

NextUpdate ==
    \/ update_server
    \/ disable_server
    \/ disable_tool

SpecUpdate == InitUpdate /\ [][NextUpdate]_vars

\* The documents the application may find at config_path when it starts
StartDocs == {NoDocument, BrokenDocument, <<>>, TwoServerDoc}

\* The registry before MCPService.__init__ has loaded it, on any of the documents
\* and a disk that can be written or not; after the load, servers and tools are
\* switched
InitLoad ==
    /\ FactoryInit
    /\ \E doc \in StartDocs : configDoc = doc
    /\ servers = <<>>
    /\ heap = LoadedHeap(<<>>)
    /\ diskOk \in BOOLEAN
    /\ regcall = NoCall
    /\ settings = {}
    /\ TablesInit

NextLoad ==
    \/ load_config
    \/ disable_server
    \/ disable_tool
    \/ DiskChange

SpecLoad == InitLoad /\ [][NextLoad]_vars

\* stream_chat turns whose requests carry a temperature and max_tokens or leave
\* them out, on a chat stored with the default values or with others
InitArgs ==
    /\ FactoryInit
    /\ RegistryInit(TwoServerDoc)
    /\ regcall = Untracked
    /\ settings = {"openai"}
    /\ \E temperature \in {DefaultTemperature, 20}, max_tokens \in {DefaultMaxTokens, 1} :
          chats = [id \in ChatIds |->
                     [user_id |-> "u1", llm_provider |-> "openai",
                      model_name |-> "gpt-3.5-turbo", system_prompt |-> NoneVal,
                      temperature |-> temperature, max_tokens |-> max_tokens]]
    /\ messages = [id \in ChatIds |-> <<>>]
    /\ llm_configs = <<>>
    /\ turn = [t \in Turns |-> IdleTurn]
    /\ ws = WsOpen
    /\ refresh = RefreshIdle
    /\ call = NoGenerate
    /\ http = NoResponse
    /\ creating = NoCreating

NextArgs ==
    \/ \E t \in Turns : StreamChat(t)
    \/ \E t \in Turns : GenerateResponse(t)
    \/ \E t \in Turns : TurnEnd(t)

SpecArgs == InitArgs /\ [][NextArgs]_vars

\* The chat endpoints asked by the owner of a chat and by another user, their
\* responses followed; no provider has an API key
InitOwners ==
    /\ FactoryInit
    /\ RegistryInit(TwoServerDoc)
    /\ regcall = Untracked
    /\ settings = {}
    /\ chats = [id \in ChatIds |-> NoChat]
    /\ messages = [id \in ChatIds |-> <<>>]
    /\ llm_configs = <<>>
    /\ turn = [t \in Turns |-> IdleTurn]
    /\ ws = WsOpen
    /\ refresh = RefreshIdle
    /\ call = NoGenerate
    /\ http = NoResponse
    /\ creating = NoCreating

NextOwners ==
    \/ create_chat
    \/ get_chat
    \/ update_chat
    \/ delete_chat
    \/ add_message
    \/ \E t \in Turns : StreamChat(t)
    \/ \E t \in Turns : TurnEnd(t)

SpecOwners == InitOwners /\ [][NextOwners]_vars

\* A document whose first server is started by a plain command string, so that its
\* tools can be fetched
NodeServerDoc ==
    <<[name |-> "filesystem",
       config |-> [command |-> Str("node"), args |-> <<>>, env |-> {}, disabled |-> FALSE,
                   description |-> "", tools |-> <<[name |-> "read_file", disabled |-> FALSE]>>]],
      DocEntry("brave-search", FALSE, <<[name |-> "search", disabled |-> FALSE]>>)>>

\* A stream_chat turn on a chat of u1, with the registry changed and refreshed
\* under it
InitSnapshot ==
    /\ FactoryInit
    /\ RegistryInit(NodeServerDoc)
    /\ regcall = Untracked
    /\ settings = {"openai"}
    /\ chats = [id \in ChatIds |->
                  [user_id |-> "u1", llm_provider |-> "openai",
                   model_name |-> "gpt-3.5-turbo", system_prompt |-> NoneVal,
                   temperature |-> DefaultTemperature, max_tokens |-> DefaultMaxTokens]]
    /\ messages = [id \in ChatIds |-> <<>>]
    /\ llm_configs = <<>>
    /\ turn = [t \in Turns |-> IdleTurn]
    /\ ws = WsOpen
    /\ refresh = RefreshIdle
    /\ call = NoGenerate
    /\ http = HttpUntracked
    /\ creating = NoCreating

NextSnapshot ==
    \/ \E t \in Turns : StreamChat(t)
    \/ \E t \in Turns : GenerateResponse(t)
    \/ \E t \in Turns : TurnEnd(t)
    \/ remove_server
    \/ update_server
    \/ RefreshTools

SpecSnapshot == InitSnapshot /\ [][NextSnapshot]_vars

\* The switches of servers and tools, and the refresh of every server at startup,
\* on a registry one server of which can be fetched from
InitToolFlags ==
    /\ FactoryInit
    /\ RegistryInit(NodeServerDoc)
    /\ regcall = NoCall
    /\ settings = {}
    /\ TablesInit

NextToolFlags ==
    \/ enable_server
    \/ disable_server
    \/ enable_tool
    \/ disable_tool
    \/ refresh_all_mcp_tools

SpecToolFlags == InitToolFlags /\ [][NextToolFlags]_vars

\* Two stream_chat requests, each served once, on the same chat or on two chats,
\* their steps interleaved in every way
TwoTurns == {"t1", "t2"}

TwoChats == {"c1", "c2"}

InitTurns ==
    /\ FactoryInit
    /\ RegistryInit(TwoServerDoc)
    /\ regcall = Untracked
    /\ settings = {"openai"}
    /\ chats = [id \in TwoChats |->
                  [user_id |-> "u1", llm_provider |-> "openai",
                   model_name |-> "gpt-3.5-turbo", system_prompt |-> NoneVal,
                   temperature |-> DefaultTemperature, max_tokens |-> DefaultMaxTokens]]
    /\ messages = [id \in TwoChats |-> <<>>]
    /\ llm_configs = <<>>
    /\ turn = [t \in TwoTurns |-> IdleTurn]
    /\ ws = WsOpen
    /\ refresh = RefreshIdle
    /\ call = NoGenerate
    /\ http = HttpUntracked
    /\ creating = NoCreating

NextTurns ==
    \/ \E t \in TwoTurns : StreamChat(t)
    \/ \E t \in TwoTurns : GenerateResponse(t)

SpecTurns == InitTurns /\ [][NextTurns]_vars

\* The adapters alone, on every conversation and every vendor reply
InitAdapter ==
    /\ FactoryInit
    /\ RegistryInit(TwoServerDoc)
    /\ regcall = Untracked
    /\ settings = {}
    /\ TablesInit

NextAdapter == generate_response \/ GenerateReturn

SpecAdapter == InitAdapter /\ [][NextAdapter]_vars

(***************************************************************************)
(* Properties                                                              *)
(***************************************************************************)

\* The tool messages a turn has appended to its message list
ToolMessages(tr) == Len(tr.current_messages) - Len(tr.llm_messages)

\* C1: a turn whose provider asks for a resolvable tool on every generate call
\* ends, within the iteration cap, with the outcome LoopLimitExceeded. Stated for
\* any cap up to MaxGenerate: after MaxGenerate such calls the turn is over.
C1_LoopLimitExceeded ==
    \A t \in Turns :
        (turn[t].calls = MaxGenerate /\ ToolMessages(turn[t]) = MaxGenerate)
            => (turn[t].pc = "done" /\ turn[t].error = "LoopLimitExceeded")

\* The step in which turn t is handed a reply that asks for a tool
Asks(t) ==
    /\ turn[t].pc = "generate"
    /\ Len(turn'[t].tool_call_chain) = Len(turn[t].tool_call_chain) + 1

\* The tool name asked for in that step
Asked(t) == turn'[t].tool_call_chain[Len(turn'[t].tool_call_chain)]

\* Of the servers turn t took from get_enabled_servers: those that have a tool dict
\* with the name, and those that have one that is not disabled.
Holders(t, P(_)) ==
    {turn[t].enabled_servers[k].name : k \in
        {k \in 1..Len(turn[t].enabled_servers) : P(heap[turn[t].enabled_servers[k].obj])}}

Exposing(t, tool_name) == Holders(t, LAMBDA s : HasTool(s, tool_name))

EnabledExposing(t, tool_name) ==
    Holders(t, LAMBDA s : \E k \in 1..Len(s.tools) :
                              s.tools[k].name = tool_name /\ ~s.tools[k].disabled)

\* C2: when two or more of the turn's enabled servers each have an enabled tool
\* with the name asked for, the resolution fails with AmbiguousTool and picks no
\* server.
C2_AmbiguousTool ==
    [][\A t \in Turns :
          (Asks(t) /\ Cardinality(EnabledExposing(t, Asked(t))) >= 2)
              => (/\ turn'[t].pc = "done"
                  /\ turn'[t].error = "AmbiguousTool"
                  /\ turn'[t].server = NoneVal)]_vars

\* C3: when the provider asks for a tool that no server of the turn's enabled
\* servers has, the turn is over with an error: no tool message is appended, no
\* content is returned, no assistant message is stored, and the turn makes no
\* further generate call.
C3_NotFoundAborts ==
    [][\A t \in Turns :
          /\ (Asks(t) /\ Exposing(t, Asked(t)) = {})
                => (/\ turn'[t].pc = "done"
                    /\ turn'[t].status = "500"
                    /\ turn'[t].error = NotFound
                    /\ turn'[t].content = <<>>
                    /\ ~turn'[t].saved
                    /\ turn'[t].current_messages = turn[t].current_messages
                    /\ messages' = messages)
          /\ (turn[t].pc = "done" /\ turn[t].error = NotFound)
                => (/\ turn'[t].calls <= turn[t].calls
                    /\ ~turn'[t].saved
                    /\ turn'[t].content = <<>>)]_vars

\* C3's case: a turn that resolved one tool and then was asked for one nobody has
C3_Witness ==
    \E t \in Turns :
        /\ turn[t].tool_call_chain = <<"search", "query">>
        /\ turn[t].calls = 2
        /\ Exposing(t, "query") = {}
        /\ turn[t].pc = "done"
        /\ turn[t].error = NotFound

\* C4: the server a tool name resolves to has a tool of that name that is not
\* disabled.
C4_OnlyEnabledTools ==
    [][\A t \in Turns :
          (Asks(t) /\ turn'[t].pc = "generate")
              => turn'[t].server \in EnabledExposing(t, Asked(t))]_vars

\* C5: validate_provider_config(p, m) is true exactly when p is a known provider
\* and m is in p's declared model list; the call constructs nothing.
C5_ValidateIff ==
    factory.op = "validate_provider_config"
        => /\ factory.ret \in {"True", "False"}
           /\ (factory.ret = "True") <=>
                  (/\ factory.provider_type \in LLMProvider
                   /\ \E i \in 1..Len(provider_info[factory.provider_type].models) :
                          provider_info[factory.provider_type].models[i] = factory.model)
           /\ factory.constructed = 0
           /\ factory.adapter = NoAdapter

\* C5's case: the pair ("openai", "gpt-9") is refused
C5_Witness ==
    /\ factory.op = "validate_provider_config"
    /\ factory.provider_type = "openai"
    /\ factory.model = "gpt-9"
    /\ factory.ret = "False"

\* C6: create_provider with a provider that is not registered raises and
\* constructs no adapter.
C6_UnsupportedProvider ==
    (factory.op = "create_provider" /\ factory.provider_type \notin LLMProvider)
        => /\ factory.raised = "ValueError"
           /\ factory.adapter = NoAdapter
           /\ factory.constructed = 0

\* C6's case: the provider "mistral"
C6_Witness ==
    /\ factory.op = "create_provider"
    /\ factory.provider_type = "mistral"
    /\ factory.raised = "ValueError"

\* C7: create_provider with a known provider and an empty or missing model returns
\* an adapter of the provider's class bound to the provider's default model, and
\* that model is in the provider's declared list.
C7_DefaultModel ==
    (/\ factory.op = "create_provider"
     /\ factory.provider_type \in LLMProvider
     /\ factory.model \in {"", NoneVal})
        => /\ factory.raised = NoneVal
           /\ factory.adapter.cls = providers[factory.provider_type]
           /\ factory.adapter.model = provider_info[factory.provider_type].default_model
           /\ factory.adapter.model \in Range(provider_info[factory.provider_type].models)

\* C7's case: google with no model gives gemini-2.5-pro
C7_Witness ==
    /\ factory.op = "create_provider"
    /\ factory.provider_type = "google"
    /\ factory.model = NoneVal
    /\ factory.adapter.cls = "GoogleProvider"
    /\ factory.adapter.model = "gemini-2.5-pro"

\* C8: create_provider with a known provider and a model outside its declared list
\* is refused with InvalidModel, and no adapter is constructed.
C8_InvalidModelRejected ==
    (/\ factory.op = "create_provider"
     /\ factory.provider_type \in LLMProvider
     /\ Truthy(factory.model)
     /\ factory.model \notin Range(provider_info[factory.provider_type].models))
        => /\ factory.raised = "InvalidModel"
           /\ factory.adapter = NoAdapter

\* C9: a websocket request refused for want of a credential has stored no message.
C9_RejectedWithoutSideEffects ==
    (\E i \in 1..Len(ws.sent) : ws.sent[i] = Frame("error", <<"No API key configured">>))
        => ws.saved = <<>>

RegistryOps == {"enable_server", "disable_server", "enable_tool", "disable_tool"}

\* C10: enable_server, disable_server, enable_tool and disable_tool applied again
\* with the same arguments change neither the registry nor the document, and
\* return what they returned the first time.
C10_Idempotent ==
    [][(regcall'.op \in RegistryOps /\ regcall'.reps >= 2 /\ regcall.reps >= 1)
          => (/\ servers' = servers
              /\ heap' = heap
              /\ configDoc' = configDoc
              /\ regcall'.ret = regcall.ret)]_vars

\* C10's case: disable_tool applied twice to a tool that was enabled, and stored
C10_Witness ==
    /\ regcall.op = "disable_tool"
    /\ regcall.reps >= 2
    /\ regcall.ret
    /\ \E i \in 1..Len(configDoc) :
          /\ configDoc[i].name = regcall.server
          /\ \E k \in 1..Len(configDoc[i].config.tools) :
                /\ configDoc[i].config.tools[k].name = regcall.tool
                /\ configDoc[i].config.tools[k].disabled

\* The name is registered / the registered server has a tool dict of the name
KnownServer(name) == \E i \in 1..Len(servers) : servers[i].name = name

KnownTool(server_name, tool_name) ==
    \E i \in 1..Len(servers) :
        /\ servers[i].name = server_name
        /\ HasTool(heap[servers[i].obj], tool_name)

\* C11: a server switch on an unknown server name, and a tool switch on an unknown
\* server or on a tool name the server does not have, returns False, is answered
\* with HTTP 404, and changes neither the registry nor the document.
C11_UnknownNameNotFound ==
    [][(/\ regcall'.op \in RegistryOps
        /\ \/ ~KnownServer(regcall'.server)
           \/ (/\ regcall'.op \in {"enable_tool", "disable_tool"}
               /\ ~KnownTool(regcall'.server, regcall'.tool)))
          => (/\ regcall'.ret = FALSE
              /\ regcall'.status = "404"
              /\ servers' = servers
              /\ heap' = heap
              /\ configDoc' = configDoc)]_vars

\* C11's case: disable_tool of a tool the registered server filesystem does not
\* have, and enable_server of a name that is not registered
C11_Witness ==
    /\ regcall.status = "404"
    /\ \/ (/\ regcall.op = "disable_tool"
           /\ regcall.server = "filesystem"
           /\ KnownServer("filesystem")
           /\ regcall.tool = "query")
       \/ (/\ regcall.op = "enable_server"
           /\ regcall.server = "sqlite")

\* The document that holds the registry as it is in memory
RegistryDoc ==
    [i \in 1..Len(servers) |-> [name |-> servers[i].name, config |-> to_dict(heap[servers[i].obj])]]

\* C12: after a registry mutation that reported success, the persisted document
\* equals the registry in memory.
C12_PersistedOnSuccess ==
    (regcall.op \in RegistryOps /\ regcall.ret) => configDoc = RegistryDoc

\* The registry in memory: the servers in the order of the dict, field for field
Registry == [i \in 1..Len(servers) |-> heap[servers[i].obj]]

\* C13: a registry saved with save_config and loaded by a fresh registry with
\* load_config is the registry that was saved, server for server and field for
\* field.
C13_RoundTrip ==
    [][(regcall.op = "save_config" /\ regcall.ret /\ regcall'.op = "load_config")
          => Registry' = Registry]_vars

\* C13's case: a registry of two servers, one of them made from an entry that
\* leaves keys out and one with an env, a tool and the disabled flag set, that
\* was saved and is loaded again
C13_Witness ==
    /\ regcall.op = "load_config"
    /\ Len(servers) = 2
    /\ \E i, j \in 1..Len(servers) :
          /\ heap[servers[i].obj].env # {}
          /\ heap[servers[i].obj].disabled
          /\ heap[servers[i].obj].tools # <<>>
          /\ heap[servers[j].obj].description = "File system access server"
    /\ configDoc = RegistryDoc

\* The names of the registered servers whose disabled flag is false
EnabledNames == {servers[i].name : i \in {i \in 1..Len(servers) : ~heap[servers[i].obj].disabled}}

\* The names a sequence of entries lists, and whether it lists none twice
Names(entries) == {entries[k].name : k \in 1..Len(entries)}

NoRepeat(entries) == Cardinality(Names(entries)) = Len(entries)

\* C14: in every registry state get_enabled_servers returns exactly the servers
\* whose disabled flag is false, each once; and the mcp_context a turn builds
\* lists exactly the servers enabled when the turn asked for them.
C14_ExactlyEnabled ==
    [][/\ Names(get_enabled_servers) = EnabledNames
       /\ NoRepeat(get_enabled_servers)
       /\ \A t \in Turns :
             (turn[t].pc = "idle" /\ turn'[t].pc = "generate")
                 => (/\ Names(McpContext(turn'[t])) = EnabledNames
                     /\ NoRepeat(McpContext(turn'[t])))]_vars

\* C14's case: a turn started while filesystem is disabled and brave-search is not
C14_Witness ==
    \E t \in Turns :
        /\ turn[t].pc = "generate"
        /\ turn[t].calls = 0
        /\ Names(McpContext(turn[t])) = {"brave-search"}
        /\ EnabledNames = {"brave-search"}
        /\ Len(servers) = 2

\* The step in which refresh_tools of a server was awaited and its fetch raised
RefreshFailed == refresh'.pos = refresh.pos + 1 /\ refresh'.raised # NoneVal

\* C15: when the fetch of a server's tools raises (no command, launch parameters
\* refused, the subprocess or the handshake fails), the server keeps its tool
\* list, no exception leaves refresh_tools, no other server and no document is
\* touched, and the startup loop goes on with the next server if there is one.
C15_RefreshFailureKeepsTools ==
    [][RefreshFailed
          => (/\ heap' = heap
              /\ servers' = servers
              /\ configDoc' = configDoc
              /\ refresh'.escaped = NoneVal
              /\ refresh'.pc = IF refresh'.pos < Len(servers) THEN "running" ELSE "done")]_vars

\* C15's case: the refresh of filesystem failed, brave-search was refreshed after
\* it, and filesystem still has the tool it had
C15_Witness ==
    /\ refresh.pos = 2
    /\ refresh.server = "brave-search"
    /\ refresh.raised = NoneVal
    /\ heap[servers[1].obj].command = List(<<"npx">>)
    /\ heap[servers[1].obj].tools = <<[name |-> "read_file", disabled |-> TRUE]>>
    /\ heap[servers[2].obj].tools # <<[name |-> "search", disabled |-> FALSE]>>

\* C16: when the fetch of a server's tools succeeds, the server's tools are
\* exactly the listing that was returned, the empty listing included.
C16_RefreshReplacesTools ==
    [][(refresh'.pos = refresh.pos + 1 /\ refresh'.raised = NoneVal)
          => heap'[servers[refresh'.pos].obj].tools = refresh'.listing]_vars

\* The messages of position from..to of a list
Slice(list, from, to) == [k \in 1..(to - from + 1) |-> list[from + k - 1]]

\* The list starts with the chat's system prompt if it has one, and goes on with
\* the stored messages in their order, and nothing else
IsInitialSequence(list, chat, stored) ==
    LET n == IF chat.system_prompt \in {NoneVal, ""} THEN 0 ELSE 1
    IN  /\ Len(list) = n + Len(stored)
        /\ n = 1 => (list[1].role = "system" /\ list[1].content = <<chat.system_prompt>>)
        /\ \A k \in 1..Len(stored) :
              list[n + k].role = stored[k].role /\ list[n + k].content = stored[k].content

C18_ChainOnlyExecuted ==
    \A t \in Turns :
        /\ Len(turn[t].tool_call_chain) = ToolMessages(turn[t])
        /\ \A k \in 1..Len(turn[t].tool_call_chain) :
              turn[t].current_messages[Len(turn[t].llm_messages) + k].content
                  = <<turn[t].tool_call_chain[k]>>

\* C19: a turn whose generate calls return k requests for tools that resolve and
\* then a terminal text completes: no request the provider returned is the
\* turn's failure, and the turn that returns has answer content and the chain of
\* exactly the k calls asked for, one tool message each, in the order asked.
C19_ToolCallsThenText ==
    [][\A t \in Turns :
          (turn[t].pc = "generate" /\ turn'[t].pc = "done")
              => /\ turn'[t].error # RequestNotAccepted
                 /\ turn'[t].status = "200"
                        => /\ turn'[t].content # <<>>
                           /\ turn'[t].tool_call_chain = turn[t].tool_call_chain
                           /\ Len(turn'[t].tool_call_chain) = turn'[t].calls - 1
                           /\ Len(turn'[t].tool_call_chain) = ToolMessages(turn'[t])]_vars

\* C20: a step of a turn in which the generate call or the tool step fails ends
\* the turn with an HTTP 500 that carries the error: no answer content, no
\* assistant message persisted, whatever the number of passes before it.
C20_FailureSurfaced ==
    [][\A t \in Turns :
          (turn[t].pc = "generate" /\ turn'[t].pc = "done" /\ turn'[t].status # "200")
              => /\ turn'[t].status = "500"
                 /\ turn'[t].error \in {VendorRaised, RequestNotAccepted, ObjectNotAccepted,
                                        NotFound, NotSubscriptable, NotStored}
                 /\ turn'[t].content = <<>>
                 /\ ~turn'[t].saved
                 /\ messages' = messages]_vars

\* C20: a turn has failed in a later pass, after a tool call was resolved, and
\* its chat holds no assistant message.
C20_Witness ==
    \E t \in Turns :
        /\ turn[t].pc = "done" /\ turn[t].status = "500"
        /\ turn[t].calls >= 2 /\ ToolMessages(turn[t]) >= 1
        /\ turn[t].error = VendorRaised
        /\ turn[t].content = <<>> /\ ~turn[t].saved
        /\ \A k \in 1..Len(messages[turn[t].chat_id]) :
               messages[turn[t].chat_id][k].role # "assistant"

\* The messages of role `role` in a sequence of messages
OfRole(msgs, role) == {k \in 1..Len(msgs) : msgs[k].role = role}

\* C21: the step that ends a turn with an answer appends one assistant message
\* holding that answer to the chat's stored messages; no other step of a turn
\* stores anything, no tool message is ever stored, and a turn starts with an
\* empty chain and no tool message whatever the turns before it did.
C21_OneAssistantMessage ==
    [][\A t \in Turns :
          /\ (turn[t].pc = "generate" /\ turn'[t].status = "200")
                => LET id == turn'[t].chat_id
                   IN  /\ Len(messages'[id]) = Len(messages[id]) + 1
                       /\ SubSeq(messages'[id], 1, Len(messages[id])) = messages[id]
                       /\ messages'[id][Len(messages'[id])].role = "assistant"
                       /\ messages'[id][Len(messages'[id])].content = turn'[t].content
                       /\ \A other \in ChatIds \ {id} : messages'[other] = messages[other]
          /\ (turn'[t] # turn[t] /\ turn'[t].status # "200") => messages' = messages
          /\ (turn[t].pc = "done" /\ turn'[t] # turn[t]) => messages' = messages
          /\ \A id \in ChatIds : OfRole(messages'[id], "tool") = {}
          /\ (turn[t].pc = "idle" /\ turn'[t].pc = "generate")
                => /\ turn'[t].tool_call_chain = <<>>
                   /\ OfRole(turn'[t].current_messages, "tool") = {}
                   /\ turn'[t].current_messages
                         = BuildMessages(chats[turn'[t].chat_id], messages[turn'[t].chat_id])]_vars

\* C21: a turn that resolved a tool call has ended with the terminal text, and
\* the chat's last stored message is the assistant message holding it.
C21_Witness ==
    \E t \in Turns :
        /\ turn[t].pc = "done" /\ turn[t].status = "200"
        /\ Len(turn[t].tool_call_chain) >= 1
        /\ turn[t].content = <<PlainText>>
        /\ LET stored == messages[turn[t].chat_id]
           IN  /\ Len(stored) >= 1
               /\ stored[Len(stored)] = Msg("assistant", <<PlainText>>, "str")
               /\ Cardinality(OfRole(stored, "assistant")) = 1

\* The reply's text parses as a JSON object that has the marker "tool_call" as a key
MarkerIsKey(reply) == reply.text = JsonToolCall

\* C22: for each of the four adapters, the reply returned is a tool-call request
\* exactly when the vendor's text parses as a JSON object with the marker as a
\* key; every other reply is returned as the text it was.
C22_ClassifiedByMarkerKey ==
    (call.op = "generate_response" /\ call.raised = NoneVal)
        => /\ IsToolCall(call.content) <=> MarkerIsKey(call.reply)
           /\ ~MarkerIsKey(call.reply) => call.content.ctype = "str"

\* The positions of the system-role messages of a conversation
SystemAt(msgs) == {k \in 1..Len(msgs) : msgs[k].role = "system"}

\* C24: AnthropicProvider passes on the system channel the content of the first
\* system-role message of the conversation, also when there are several, and
\* does not send that message inline.
C24_FirstSystemOutOfBand ==
    (/\ call.op = "generate_response"
     /\ call.cls = "AnthropicProvider"
     /\ SystemAt(call.messages) # {})
        => LET first == CHOOSE k \in SystemAt(call.messages) :
                            \A j \in SystemAt(call.messages) : k <= j
           IN  /\ call.system = call.messages[first].content
               /\ \A k \in 1..Len(call.sent) :
                     ~(/\ call.sent[k].role = "system"
                       /\ call.sent[k].content = call.messages[first].content)

Resolution(tr, tool_name) ==
    IF ResolveRaises(tr.enabled_servers, tool_name) THEN "TypeError"
    ELSE IF ResolveServer(tr.enabled_servers, tool_name) = 0 THEN NoneVal
    ELSE tr.enabled_servers[ResolveServer(tr.enabled_servers, tool_name)].name

\* C25: what a tool name resolves to in a running turn is fixed by the registry
\* as it was when the turn took its snapshot: no step of a registry operation or
\* of a refresh changes it.
C25_ResolutionFromSnapshot ==
    [][\A t \in Turns :
          (turn[t].pc = "generate" /\ turn'[t] = turn[t])
              => \A tool_name \in RequestedTools :
                    Resolution(turn[t], tool_name)' = Resolution(turn[t], tool_name)]_vars

\* C26: requests in flight share no turn state. A step of one request leaves
\* every other request's state alone; the call it appends is appended to its own
\* chain, and the tool message it appends to its own list answers that call; an
\* answer is the request's own reply and is stored in its own chat only.
C26_TurnsShareNothing ==
    [][\A t \in DOMAIN turn :
          turn'[t] # turn[t]
              => /\ \A u \in DOMAIN turn \ {t} : turn'[u] = turn[u]
                 /\ turn[t].pc = "generate"
                       => /\ \/ turn'[t].tool_call_chain = turn[t].tool_call_chain
                             \/ \E n \in RequestedTools :
                                   turn'[t].tool_call_chain = Append(turn[t].tool_call_chain, n)
                          /\ \/ turn'[t].current_messages = turn[t].current_messages
                             \/ /\ turn'[t].tool_call_chain # turn[t].tool_call_chain
                                /\ turn'[t].current_messages
                                     = Append(turn[t].current_messages,
                                              Msg("tool",
                                                  <<turn'[t].tool_call_chain[
                                                        Len(turn'[t].tool_call_chain)]>>,
                                                  "str"))
                          /\ \A id \in DOMAIN messages \ {turn[t].chat_id} :
                                messages'[id] = messages[id]
                          /\ turn'[t].status = "200"
                                => turn'[t].content
                                     = messages'[turn[t].chat_id][Len(messages'[turn[t].chat_id])].content]_vars

\* C26: two requests are in their loops at once, each with a tool call of its own
\* resolved, one having made more calls than the other.
C26_Witness ==
    \E t, u \in DOMAIN turn :
        /\ t # u
        /\ turn[t].pc = "generate" /\ turn[u].pc = "generate"
        /\ Len(turn[t].tool_call_chain) = 2 /\ ToolMessages(turn[t]) = 2
        /\ Len(turn[u].tool_call_chain) = 1 /\ ToolMessages(turn[u]) = 1

\* C27: a step of a stream_chat request changes nothing of the registry: not the
\* servers registered, no object's flag, tools or tool flags, not the document.
\* The registry changes only in steps of registry operations, which are steps of
\* no request.
C27_TurnLeavesRegistry ==
    [][/\ (\E t \in Turns : turn'[t] # turn[t])
            => /\ servers' = servers
               /\ heap' = heap
               /\ configDoc' = configDoc
       /\ (servers' # servers \/ heap' # heap \/ configDoc' # configDoc)
            => turn' = turn /\ messages' = messages]_vars

\* C27: a turn has ended after a resolved tool call, on a registry in which a
\* server was disabled meanwhile and the document says so.
C27_Witness ==
    \E t \in Turns :
        /\ turn[t].pc = "done"
        /\ turn[t].calls >= 2 /\ ToolMessages(turn[t]) >= 1
        /\ \E i \in 1..Len(servers) :
              /\ heap[servers[i].obj].disabled
              /\ configDoc[i].config.disabled

\* The adapter of the chat the session is answering does not stream: it was made,
\* and its stream_response is not a generator
StreamingUnsupported ==
    LET chat == chats[ws.chat_id]
        i == FirstConfig(ws.user, chat.llm_provider)
    IN  /\ ws.pc = "respond"
        /\ i # 0
        /\ Truthy(llm_configs[i].api_key)
        /\ create_provider(chat.llm_provider, llm_configs[i].api_key,
                           chat.model_name).raised = NoneVal
        /\ create_provider(chat.llm_provider, llm_configs[i].api_key,
                           chat.model_name).adapter.cls # "GoogleProvider"

\* The fragments of the assistant_chunk frames sent, in the order sent
Forwarded(sent) ==
    LET chunks == SelectSeq(sent, LAMBDA f : f.type = "assistant_chunk")
    IN  [k \in 1..Len(chunks) |-> chunks[k].content[1]]

\* C28: when the chat's adapter does not stream, the step that finds it out sends
\* one error frame and nothing else, stores no message, starts no stream, and
\* leaves the session waiting for the next client message.
C28_StreamingUnsupportedNonFatal ==
    [][(StreamingUnsupported /\ ws' # ws)
          => /\ ws'.pc = "receive"
             /\ ws'.sent = Append(ws.sent, Frame("error", <<"Failed to generate response">>))
             /\ Forwarded(ws'.sent) = <<>>
             /\ ws'.saved = ws.saved
             /\ "assistant" \notin Range(ws'.saved)
             /\ messages' = messages]_vars

\* C28: after a turn refused because the adapter does not stream, the session
\* has taken the next client message: the chat holds two user messages and no
\* assistant message, and the second turn was refused the same way.
C28_Witness ==
    /\ ws.pc = "receive"
    /\ ws.chat_id \in ChatIds
    /\ chats[ws.chat_id].llm_provider = "openai"
    /\ ws.sent = <<Frame("user_message", <<"search for cats">>),
                   Frame("error", <<"Failed to generate response">>)>>
    /\ Len(messages[ws.chat_id]) = 2
    /\ OfRole(messages[ws.chat_id], "assistant") = {}

\* C29: in a streamed turn each fragment is sent as it is produced and appended
\* to the content; the message stored at the end holds the fragments forwarded, in
\* order; the completion frame is the last frame, sent in the step that stores the
\* message; a stream that fails stores nothing and sends no completion.
C29_StreamedInOrder ==
    [][ws.pc = "stream"
          => /\ Forwarded(ws.sent) = ws.assistant_content
             /\ \A k \in 1..Len(ws.sent) : ws.sent[k].type # "assistant_complete"
             /\ (ws'.pc = "stream" /\ ws' # ws)
                   => /\ Len(ws'.sent) = Len(ws.sent) + 1
                      /\ Forwarded(ws'.sent) = ws'.assistant_content
                      /\ SubSeq(ws'.assistant_content, 1, Len(ws.assistant_content))
                            = ws.assistant_content
                      /\ messages' = messages
             /\ (ws'.pc = "receive" /\ messages' # messages)
                   => /\ messages' = [messages EXCEPT ![ws.chat_id] =
                                         Append(@, Msg("assistant", Forwarded(ws.sent), "str"))]
                      /\ ws'.sent = Append(ws.sent, Frame("assistant_complete", Forwarded(ws.sent)))
             /\ (ws'.pc = "receive" /\ messages' = messages)
                   => /\ ws'.sent[Len(ws'.sent)].type = "error"
                      /\ \A k \in 1..Len(ws'.sent) : ws'.sent[k].type # "assistant_complete"]_vars

\* C29: a turn streamed two different fragments; the completion frame is the
\* last one sent and the stored assistant message holds the two in order.
C29_Witness ==
    /\ ws.pc = "receive"
    /\ ws.chat_id \in ChatIds
    /\ ws.sent = <<Frame("user_message", <<"search for cats">>),
                   Frame("assistant_chunk", <<"Here are ">>),
                   Frame("assistant_chunk", <<"3 links">>),
                   Frame("assistant_complete", <<"Here are ", "3 links">>)>>
    /\ messages[ws.chat_id][Len(messages[ws.chat_id])]
          = Msg("assistant", <<"Here are ", "3 links">>, "str")

\* The rows of the user that are the default one
Defaults(user) ==
    {i \in 1..Len(llm_configs) :
        llm_configs[i].user_id = user /\ llm_configs[i].is_default}

\* C30: after any sequence of create, update, set-default and delete requests,
\* no user has two LLM configurations with is_default true.
C30_AtMostOneDefault ==
    \A user \in Users : Cardinality(Defaults(user)) <= 1

\* C30: u1 has two rows; the first, made the default one when it was created as
\* the user's only row, has lost the flag to the second.
C30_Witness ==
    /\ Len(llm_configs) = 2
    /\ llm_configs[1].user_id = "u1" /\ ~llm_configs[1].is_default
    /\ llm_configs[2].user_id = "u1" /\ llm_configs[2].is_default

\* C31: no user has two LLM configurations of the same provider, however the
\* steps of two create_llm_config requests interleave.
C31_OneConfigPerProvider ==
    \A i, j \in 1..Len(llm_configs) :
        (/\ i # j
         /\ llm_configs[i].user_id \in Users
         /\ llm_configs[i].user_id = llm_configs[j].user_id)
            => llm_configs[i].provider # llm_configs[j].provider

\* C32: every stored chat and every stored LLM configuration holds a provider
\* and a model that validate_provider_config accepts.
C32_PairsAccepted ==
    /\ \A id \in DOMAIN chats :
          chats[id] # NoChat
            => validate_provider_config(chats[id].llm_provider, chats[id].model_name)
    /\ \A i \in 1..Len(llm_configs) :
          llm_configs[i] # DeletedRow
            => validate_provider_config(llm_configs[i].provider, llm_configs[i].model_name)

\* The chat is a stored chat of a user other than this one
OthersChat(user, id) ==
    /\ id \in DOMAIN chats
    /\ chats[id] # NoChat
    /\ user \in Users
    /\ chats[id].user_id # user

\* C33: get_chat, update_chat, delete_chat and add_message asked by a user about
\* a chat of another user answer 404 with nothing of the chat in the body, and
\* stream_chat ends with 404 before it has read a message; the chat and its
\* messages are as they were.
C33_IsolatedPerOwner ==
    [][/\ (http' # http /\ OthersChat(http'.user, http'.chat_id))
          => /\ http'.op \in {"get_chat", "update_chat", "delete_chat", "add_message"}
             /\ http'.status = "404"
             /\ http'.detail = "Chat not found"
             /\ http'.body = <<>>
             /\ chats' = chats
             /\ messages' = messages
       /\ \A t \in DOMAIN turn :
            (turn[t].pc = "idle" /\ turn'[t] # turn[t]
               /\ OthersChat(turn'[t].user, turn'[t].chat_id))
              => /\ turn'[t].pc = "done"
                 /\ turn'[t].status = "404"
                 /\ turn'[t].llm_messages = <<>>
                 /\ turn'[t].content = <<>>
                 /\ chats' = chats
                 /\ messages' = messages]_vars

\* C33: u2 has asked to delete the chat of u1, which has a message, and was
\* answered 404; the chat and the message are there.
C33_Witness ==
    /\ http.op = "delete_chat"
    /\ http.user = "u2"
    /\ http.status = "404"
    /\ chats["c1"].user_id = "u1"
    /\ Len(messages["c1"]) = 1

\* The chat half of C32, used to check it where chats are updated
ChatPairsAccepted ==
    \A id \in DOMAIN chats :
        chats[id] # NoChat
          => validate_provider_config(chats[id].llm_provider, chats[id].model_name)

\* The tool of the server registered under the name has its disabled flag set
ToolDisabled(server_name, tool_name) ==
    LET id == get_server(server_name)
    IN  /\ id # NoObj
        /\ \E k \in 1..Len(heap[id].tools) :
              /\ IsToolDict(heap[id].tools[k])
              /\ heap[id].tools[k].name = tool_name
              /\ "disabled" \in DOMAIN heap[id].tools[k]
              /\ heap[id].tools[k].disabled

\* C34: a tool that is disabled is disabled after every step that is not a call
\* of enable_tool for it.
C34_DisabledUntilEnabled ==
    [][\A server_name \in ServerInputs, tool_name \in ToolInputs :
          (/\ ToolDisabled(server_name, tool_name)
           /\ ~(/\ regcall' # regcall
                 /\ regcall'.op = "enable_tool"
                 /\ regcall'.server = server_name
                 /\ regcall'.tool = tool_name))
            => ToolDisabled(server_name, tool_name)']_vars

\* The step is a call of update_server
UpdateServerStep == regcall' # regcall /\ regcall'.op = "update_server"

\* C35: a call of update_server for a registered name leaves the server as some
\* configuration makes it that keeps the previous disabled flag and the previous
\* tools where it has no such key, and leaves every other server as it was; a
\* call for an unknown name returns None and changes nothing.
C35_UpdateKeepsOmitted ==
    [][\A name \in ServerInputs :
          (UpdateServerStep /\ regcall'.server = name)
            => LET old == get_server(name)
                   new == get_server(name)'
               IN  IF old = NoObj
                   THEN /\ ~regcall'.ret
                        /\ servers' = servers
                        /\ heap' = heap
                        /\ configDoc' = configDoc
                   ELSE /\ regcall'.ret
                        /\ [i \in 1..Len(servers') |-> servers'[i].name]
                              = [i \in 1..Len(servers) |-> servers[i].name]
                        /\ \A i \in 1..Len(servers) :
                              servers[i].name # name
                                => /\ servers'[i] = servers[i]
                                   /\ heap'[servers[i].obj] = heap[servers[i].obj]
                        /\ \E config \in ConfigInputs :
                              /\ heap'[new] = MCPServer(name, config)
                              /\ "disabled" \notin DOMAIN config
                                    => heap'[new].disabled = heap[old].disabled
                              /\ "tools" \notin DOMAIN config
                                    => heap'[new].tools = heap[old].tools]_vars

\* The step is a call of load_config
LoadConfigStep == regcall' # regcall /\ regcall'.op = "load_config"

\* C36: a call of load_config leaves a document that exists as it is, parsed or
\* not; the document changes only when there was none, and then to the default
\* configuration of three servers.
C36_LoadKeepsDocument ==
    [][LoadConfigStep
          => /\ configDoc # NoDocument => configDoc' = configDoc
             /\ configDoc' # configDoc
                   => /\ configDoc = NoDocument
                      /\ Len(configDoc') = 3
                      /\ [i \in 1..3 |-> configDoc'[i].name]
                            = <<"filesystem", "brave-search", "sqlite">>]_vars

\* C37: every generate call of a turn is made with the temperature and the
\* max_tokens of the request where the request has them, and with the values of
\* the chat row where it leaves them out.
C37_RequestValuesUsed ==
    [][\A t \in DOMAIN turn :
          (turn[t].pc = "generate" /\ turn'[t].calls = turn[t].calls + 1)
            => LET request == turn[t].request
                   args == turn'[t].args
               IN  /\ request.temperature \in 0..20
                         => args.temperature = request.temperature
                   /\ request.max_tokens \in 1..4000
                         => args.max_tokens = request.max_tokens
                   /\ request.temperature = Omitted
                         => args.temperature = turn[t].chat.temperature
                   /\ request.max_tokens = Omitted
                         => args.max_tokens = turn[t].chat.max_tokens]_vars

====
